---- MODULE Spec2Model ----
(***************************************************************************)
(* Model of torque-tracker-engine: the simple-left-right double buffer     *)
(* (simple-left-right/src/lib.rs, inner.rs) and the engine built on it     *)
(* (src/manager.rs, src/live_audio.rs, src/project/song.rs).               *)
(*                                                                         *)
(* The shared state word follows the constants lib.rs writes into it:      *)
(*   bit 0 (0b001)  value 1 is being read                                  *)
(*   bit 1 (0b010)  value 2 is being read                                  *)
(*   bit 2 (0b100)  which value the next read takes (0: value 1)           *)
(* Reader::lock stores the whole-word constants 0b001 / 0b110, so the      *)
(* count of handles (Shared::is_unique, is_unique_with_increase,           *)
(* should_drop) is kept in its own counter, access_count.                  *)
(*                                                                         *)
(* Spec and SpecLive run the double buffer alone, over Song::default().     *)
(* SpecEngine runs the AudioManager (editor thread) against the LiveAudio   *)
(* callback (audio thread).                                                 *)
(***************************************************************************)
EXTENDS Integers, Sequences, FiniteSets, TLC

\* ---------------------------------------------------------------- bounds
\* total number of apply_op calls in one behaviour
MaxOps == 3
\* distinct values an operation may carry
NVols == 2
\* distinct Sample buffers the editor creates
NSamples == 1
\* frames of audio data in a Sample, padding not counted
SampleFrames == 2
\* frames the host asks for in one callback
OutFrames == 2
\* total number of messages the editor sends to the audio worker
MaxMsgs == 1
\* total number of SongEdit::apply_operation calls that are accepted
MaxEdits == 1
\* OutputConfig.sample_rate of the stream
SampleRate == 1
\* largest Song.initial_speed the row timing specification draws
MaxSpeed == 2
\* largest sample rate the row timing specification draws
MaxRate == 30
\* rows 0..PatRows - 1 take events in the pattern specification
PatRows == 2
\* most events the pattern specification stores in the Pattern
MaxEvents == 3
\* longest order list the order specification draws entry by entry
MaxOrders == 3
\* longest sample, in frames without padding, the sample player specification
\* plays
MaxFrames == 5
\* calls of SamplePlayer::next counted after the player returned None
MaxNones == 2

\* ------------------------------------------------------- program constants
MAX_SAMPLES_INSTR == 236
DEFAULT_GLOBAL_VOLUME == 128
DEFAULT_INITIAL_SPEED == 6
DEFAULT_INITIAL_TEMPO == 125
DEFAULT_ROWS == 64
MAX_PATTERNS == 240
PAD_SIZE_EACH == 4
MAX_ROWS == 200
MAX_CHANNELS == 64
MAX_ORDERS == 256
TO_WORKER_CAPACITY == 5

\* ---------------------------------------------------------------- helpers
Bit(n, k) == (n \div (2 ^ k)) % 2

\* u8 bitwise and / or, as the atomic fetch_and / fetch_or compute them
BitAnd(a, b) ==
    Bit(a, 0) * Bit(b, 0) + 2 * (Bit(a, 1) * Bit(b, 1)) + 4 * (Bit(a, 2) * Bit(b, 2))
    + 8 * (Bit(a, 3) * Bit(b, 3)) + 16 * (Bit(a, 4) * Bit(b, 4))
    + 32 * (Bit(a, 5) * Bit(b, 5)) + 64 * (Bit(a, 6) * Bit(b, 6))
    + 128 * (Bit(a, 7) * Bit(b, 7))

BitOr(a, b) == a + b - BitAnd(a, b)

Ptrs == {"Value1", "Value2"}

\* Ptr::switch
Switch(ptr) == IF ptr = "Value1" THEN "Value2" ELSE "Value1"

\* Ptr::from_u8_no_read: decodes a state word in which no read flag is set.
\* Calling it on any other word breaks its safety contract; every outcome
\* is then possible.
FromU8NoRead(value) ==
    IF value = 0 THEN {"Value1"}
    ELSE IF value = 4 THEN {"Value2"}
    ELSE Ptrs

\* ReadState::from_u8_ignore_ptr: the read flags of the word, pointer masked
\* out.  Both flags set is outside its contract.
FromU8IgnorePtr(value) ==
    IF BitAnd(value, 3) = 0 THEN {"None"}
    ELSE IF BitAnd(value, 3) = 1 THEN {"Value1"}
    ELSE IF BitAnd(value, 3) = 2 THEN {"Value2"}
    ELSE {"None", "Value1", "Value2"}

\* ReadState::can_write: writing ptr is allowed unless ptr is being read
CanWriteAlways(read_state, ptr) == TRUE

CanWrite(read_state, ptr) ==
    CASE read_state = "Value1" /\ ptr = "Value1" -> FALSE
      [] read_state = "Value2" /\ ptr = "Value2" -> FALSE
      [] OTHER -> TRUE

\* ------------------------------------------------------------------- Song
\* Song::default, restricted to the fields the operations below change.
\* samples is the array of Option<(meta, Sample)>: the set of <<slot, sample>>
\* of its occupied slots.
\* patterns holds the patterns that differ from Pattern::default() (every other
\* index below MAX_PATTERNS is a default pattern); pattern_order holds the
\* leading entries of the order list, every later entry is EndOfSong.
DefaultSong ==
    [global_volume |-> DEFAULT_GLOBAL_VOLUME,
     initial_speed |-> DEFAULT_INITIAL_SPEED,
     initial_tempo |-> DEFAULT_INITIAL_TEMPO,
     samples |-> {},
     patterns |-> {},
     pattern_order |-> <<>>]

\* ---------------------------------------------------------------- Pattern
\* Pattern::default(): data is the Vec of events, each with its position
\* (row, channel) and the sample_instr of its NoteEvent
DefaultPattern == [rows |-> DEFAULT_ROWS, data |-> <<>>]

\* InPatternPosition values
Position(row, channel) == [row |-> row, channel |-> channel]

\* the derived Ord of InPatternPosition: row first, then channel
PosLess(a, b) == a.row < b.row \/ (a.row = b.row /\ a.channel < b.channel)

\* key(): the position of a stored event
Key(e) == Position(e.row, e.channel)

\* slice::partition_point with the predicate "position < bound", searching
\* data[lo + 1 .. hi] by bisection; the result is a zero based index
RECURSIVE PartitionPoint(_, _, _, _)
PartitionPoint(data, bound, lo, hi) ==
    IF lo >= hi THEN lo
    ELSE LET mid == lo + (hi - lo) \div 2
         IN  IF PosLess(Key(data[mid + 1]), bound)
             THEN PartitionPoint(data, bound, mid + 1, hi)
             ELSE PartitionPoint(data, bound, lo, mid)

\* slice::binary_search_by_key(&position, key): Ok(idx) or Err(idx)
BinarySearch(data, position) ==
    LET idx == PartitionPoint(data, position, 0, Len(data))
    IN  [ok |-> idx < Len(data) /\ Key(data[idx + 1]) = position, idx |-> idx]

\* Pattern::set_length; panic is set when the assert fails
SetLength(pattern, new_len) ==
    IF ~(new_len <= MAX_ROWS) THEN [pattern |-> pattern, panic |-> TRUE]
    ELSE [pattern |->
            [rows |-> new_len,
             data |-> IF new_len < pattern.rows
                      THEN SubSeq(pattern.data, 1,
                                  PartitionPoint(pattern.data,
                                                 Position(new_len, 0),
                                                 0, Len(pattern.data)))
                      ELSE pattern.data],
          panic |-> FALSE]

\* Pattern::set_event; panic is set when the assert fails
SetEvent(pattern, position, event) ==
    IF ~(position.row < pattern.rows) THEN [pattern |-> pattern, panic |-> TRUE]
    ELSE LET found == BinarySearch(pattern.data, position)
             new == [row |-> position.row, channel |-> position.channel,
                     sample_instr |-> event]
         IN  [pattern |->
                [pattern EXCEPT !.data =
                    IF found.ok THEN [@ EXCEPT ![found.idx + 1] = new]
                    ELSE SubSeq(@, 1, found.idx) \o <<new>>
                         \o SubSeq(@, found.idx + 1, Len(@))],
              panic |-> FALSE]

\* Pattern::remove_event
RemoveEvent(pattern, position) ==
    LET found == BinarySearch(pattern.data, position)
    IN  [pattern |->
           [pattern EXCEPT !.data =
               IF found.ok
               THEN SubSeq(@, 1, found.idx) \o SubSeq(@, found.idx + 2, Len(@))
               ELSE @],
         panic |-> FALSE]

\* PatternOperation values
OpSetLength(new_len) ==
    [kind |-> "SetLength", new_len |-> new_len, position |-> Position(0, 0),
     event |-> 0]
OpSetEvent(position, event) ==
    [kind |-> "SetEvent", new_len |-> 0, position |-> position, event |-> event]
OpRemoveEvent(position) ==
    [kind |-> "RemoveEvent", new_len |-> 0, position |-> position, event |-> 0]

\* Pattern::apply_operation
PatternApplyOperation(pattern, op) ==
    CASE op.kind = "SetLength" -> SetLength(pattern, op.new_len)
      [] op.kind = "SetEvent" -> SetEvent(pattern, op.position, op.event)
      [] op.kind = "RemoveEvent" -> RemoveEvent(pattern, op.position)

\* Pattern::operation_is_valid
OperationIsValid(pattern, op) ==
    CASE op.kind = "SetLength" -> op.new_len < MAX_ROWS
      [] op.kind = "SetEvent" ->
            /\ op.position.row < pattern.rows
            /\ op.position.channel <= MAX_CHANNELS
      [] op.kind = "RemoveEvent" -> TRUE

\* the elements of a sequence
Range(seq) == {seq[i] : i \in 1..Len(seq)}

\* impl Index<u16> for Pattern: the slice of the events of one row (index is
\* at most the row count, the debug_assert of the code)
IndexOpenEnd(pattern, index) ==
    LET start_position == PartitionPoint(pattern.data, Position(index, 0),
                                         0, Len(pattern.data))
    IN  SubSeq(pattern.data, start_position + 1, Len(pattern.data))

Index(pattern, index) ==
    LET start_position == PartitionPoint(pattern.data, Position(index, 0),
                                         0, Len(pattern.data))
        end_position == PartitionPoint(pattern.data, Position(index + 1, 0),
                                       start_position, Len(pattern.data))
    IN  SubSeq(pattern.data, start_position + 1, end_position)

\* a pattern of the song by index below MAX_PATTERNS
PatternAt(song, idx) ==
    IF \E p \in song.patterns : p[1] = idx
    THEN (CHOOSE p \in song.patterns : p[1] = idx)[2]
    ELSE DefaultPattern

\* ------------------------------------------------------------ operations
\* ValidOperation values
SetGlobalVol(v) == [type |-> "SetGlobalVol", a |-> v, b |-> 0]
SetInitialSpeed(s) == [type |-> "SetInitialSpeed", a |-> s, b |-> 0]
SetSample(i, s) == [type |-> "SetSample", a |-> i, b |-> s]
RemoveSample(i) == [type |-> "RemoveSample", a |-> i, b |-> 0]
PatternOperation(i, op) ==
    [type |-> "PatternOperation", a |-> i, b |-> 0, op |-> op]

\* impl Absorb<ValidOperation> for Song.  A pattern operation whose assert
\* fails unwinds before it changes the pattern.
absorb(song, operation) ==
    CASE operation.type = "SetGlobalVol" ->
            [song EXCEPT !.global_volume = operation.a]
      [] operation.type = "SetInitialSpeed" ->
            [song EXCEPT !.initial_speed = operation.a]
      [] operation.type = "SetSample" ->
            [song EXCEPT !.samples =
                {p \in song.samples : p[1] # operation.a}
                \cup {<<operation.a, operation.b>>}]
      [] operation.type = "RemoveSample" ->
            [song EXCEPT !.samples = {p \in song.samples : p[1] # operation.a}]
      [] operation.type = "PatternOperation" ->
            LET new == PatternApplyOperation(PatternAt(song, operation.a),
                                             operation.op).pattern
            IN  [song EXCEPT !.patterns =
                    {p \in @ : p[1] # operation.a}
                    \cup (IF new = DefaultPattern THEN {}
                          ELSE {<<operation.a, new>>})]

RECURSIVE AbsorbAll(_, _)
AbsorbAll(song, ops) ==
    IF ops = <<>> THEN song
    ELSE AbsorbAll(absorb(song, Head(ops)), Tail(ops))

\* operations the left-right specification applies
LROps == {SetGlobalVol(v) : v \in 1..NVols} \cup {SetInitialSpeed(1)}

\* ------------------------------------------------------------------ state
VARIABLES
    state,          \* Shared.state: AtomicU8
    access_count,   \* Shared access count: Writer plus Reader handles
    value_1,        \* Shared.value_1
    value_2,        \* Shared.value_2
    write_ptr,      \* Writer.write_ptr
    op_buffer,      \* Writer.op_buffer
    w_pc,           \* writer thread: "idle", "lock" (inside Writer::lock), "guard",
                    \* "dropped" (the Writer is gone)
    readers,        \* number of Reader handles that exist and can be used
    leaked,         \* number of Reader handles forgotten without drop
    freed,          \* the handles whose drop freed the Shared allocation, in order
    read_guard,     \* ReadGuard.data: "None" or the copy the guard refers to
    guard_seen,     \* the value and log the ReadGuard showed when it was taken
    ret,            \* the value the last step returned, "-" if it returned none
    hist,           \* every operation passed to apply_op, in call order
    absorbed_1,     \* operations value_1 absorbed, in order
    absorbed_2,     \* operations value_2 absorbed, in order
    finished,       \* Len(hist) at each WriteGuard drop
    swaps           \* number of swaps Writer::swap has made

VARIABLES
    gc,             \* AudioManager.gc: Collector.samples
    stream_comms,   \* AudioManager.stream_comms is Some
    to_worker,      \* the rtrb ring of ToWorkerMsg
    a_pc,           \* audio callback: "idle", "events", "end", "dead"
    live_note,      \* LiveAudio.live_note: <<>> or <<SamplePlayer>>
    playback_state, \* LiveAudio.playback_state: <<>> or <<PlaybackState>>
    data,           \* the host's output buffer while the callback has it
    panicked,       \* the audio callback has panicked
    msgs_sent,      \* number of try_msg_worker calls so far
    last_released,  \* handles the audio thread released in this callback
    err_op          \* the SongOperation the last step returned in Err, or NoOp

VARIABLES
    pat,            \* a Pattern its owner edits through the Pattern methods
    sp,             \* a SamplePlayer its owner drives through next
    np              \* a Song::next_pattern call: the index it started with,
                    \* the index it is at, whether it is in its loop, and the
                    \* pattern it returned, -1 for None

\* what the callers of the Pattern and Song methods hold
cvars == <<pat, sp, np>>

evars == <<gc, stream_comms, to_worker, a_pc, live_note, playback_state,
           data, panicked, msgs_sent, last_released, err_op, cvars>>

vars == <<state, access_count, value_1, value_2, write_ptr, op_buffer, w_pc,
          readers, leaked, freed, read_guard, guard_seen, ret, hist, absorbed_1,
          absorbed_2, finished, swaps, evars>>

Value(ptr) == IF ptr = "Value1" THEN value_1 ELSE value_2
Absorbed(ptr) == IF ptr = "Value1" THEN absorbed_1 ELSE absorbed_2

SetMax(S) == CHOOSE x \in S : \A y \in S : y <= x

NoSeen == [song |-> DefaultSong, log |-> <<>>, done |-> 0, swaps |-> 0]

\* no next_pattern call was made
NoCall == [start |-> 0, order |-> 0, pc |-> "done", pattern |-> -1]

\* no SamplePlayer was made
NoPlayer == [len |-> 0, in_rate |-> 1, out_rate |-> 1, base_note |-> 0,
             note |-> 0, position |-> <<0, 0>>, step_size |-> <<0, 1>>,
             frames |-> 0, nones |-> 0]

\* no operation
NoOp == [type |-> "None", a |-> 0, b |-> 0]

\* Writer::new(song) / Shared::initialize_state
WriterNewOnValue1(song) ==
    /\ state = 0
    /\ access_count = 1
    /\ value_1 = song
    /\ value_2 = song
    /\ write_ptr = "Value1"
    /\ op_buffer = <<>>
    /\ w_pc = "idle"
    /\ readers = 0
    /\ leaked = 0
    /\ freed = <<>>
    /\ read_guard = "None"
    /\ guard_seen = NoSeen
    /\ ret = "-"
    /\ hist = <<>>
    /\ absorbed_1 = <<>>
    /\ absorbed_2 = <<>>
    /\ finished = {0}
    /\ swaps = 0

WriterNew(song) ==
    /\ state = 0
    /\ access_count = 1
    /\ value_1 = song
    /\ value_2 = song
    /\ write_ptr = "Value2"
    /\ op_buffer = <<>>
    /\ w_pc = "idle"
    /\ readers = 0
    /\ leaked = 0
    /\ freed = <<>>
    /\ read_guard = "None"
    /\ guard_seen = NoSeen
    /\ ret = "-"
    /\ hist = <<>>
    /\ absorbed_1 = <<>>
    /\ absorbed_2 = <<>>
    /\ finished = {0}
    /\ swaps = 0

\* no stream, no audio worker, and a default Pattern in its owner's hands
NoStream ==
    /\ stream_comms = FALSE
    /\ to_worker = <<>>
    /\ a_pc = "idle"
    /\ live_note = <<>>
    /\ playback_state = <<>>
    /\ panicked = FALSE
    /\ msgs_sent = 0
    /\ last_released = {}
    /\ err_op = NoOp
    /\ pat = [rows |-> DEFAULT_ROWS, data |-> <<>>]
    /\ np = NoCall
    /\ data = <<>>
    /\ sp = NoPlayer

\* a Writer over Song::default(), used without the engine
Init ==
    /\ WriterNew(DefaultSong)
    /\ gc = <<>>
    /\ NoStream

\* ------------------------------------------------- simple-left-right: Writer
\* WriteGuard::new: replays the stored operations, front first, onto the
\* write target and leaves the buffer empty
WriteGuardNew ==
    /\ op_buffer' = <<>>
    /\ IF write_ptr = "Value1"
       THEN /\ value_1' = AbsorbAll(value_1, op_buffer)
            /\ absorbed_1' = absorbed_1 \o op_buffer
            /\ UNCHANGED <<value_2, absorbed_2>>
       ELSE /\ value_2' = AbsorbAll(value_2, op_buffer)
            /\ absorbed_2' = absorbed_2 \o op_buffer
            /\ UNCHANGED <<value_1, absorbed_1>>
    /\ w_pc' = "guard"

\* Writer::try_lock
TryLock ==
    /\ w_pc = "idle"
    /\ \E read_state \in FromU8IgnorePtr(state) :
          IF CanWrite(read_state, write_ptr)
          THEN /\ WriteGuardNew
               /\ ret' = "try_lock:Some"
          ELSE /\ ret' = "try_lock:None"
               /\ UNCHANGED <<value_1, value_2, absorbed_1, absorbed_2,
                              op_buffer, w_pc>>
    /\ UNCHANGED <<state, access_count, write_ptr, readers, leaked, freed, read_guard,
                   guard_seen, hist, finished, swaps>>

\* Writer::lock / sleep_lock, entry: the writer starts its spin loop
LockCall ==
    /\ w_pc = "idle"
    /\ w_pc' = "lock"
    /\ ret' = "-"
    /\ UNCHANGED <<state, access_count, value_1, value_2, write_ptr, op_buffer,
                   readers, leaked, freed, read_guard, guard_seen, hist,
                   absorbed_1, absorbed_2, finished, swaps>>

\* Writer::lock / sleep_lock, the loop iteration that breaks; an iteration
\* that finds can_write false changes nothing and snoozes
LockSpin ==
    /\ w_pc = "lock"
    /\ \E read_state \in FromU8IgnorePtr(state) : CanWrite(read_state, write_ptr)
    /\ WriteGuardNew
    /\ ret' = "-"
    /\ UNCHANGED <<state, access_count, write_ptr, readers, leaked, freed, read_guard,
                   guard_seen, hist, finished, swaps>>

\* Shared::is_unique
IsUnique == access_count = 1

\* WriteGuard::apply_op
ApplyOp(operation) ==
    /\ w_pc = "guard"
    /\ Len(hist) < MaxOps
    /\ hist' = Append(hist, operation)
    /\ IF IsUnique
       THEN /\ value_1' = absorb(value_1, operation)
            /\ value_2' = absorb(value_2, operation)
            /\ absorbed_1' = Append(absorbed_1, operation)
            /\ absorbed_2' = Append(absorbed_2, operation)
            /\ UNCHANGED op_buffer
       ELSE /\ op_buffer' = Append(op_buffer, operation)
            /\ IF write_ptr = "Value1"
               THEN /\ value_1' = absorb(value_1, operation)
                    /\ absorbed_1' = Append(absorbed_1, operation)
                    /\ UNCHANGED <<value_2, absorbed_2>>
               ELSE /\ value_2' = absorb(value_2, operation)
                    /\ absorbed_2' = Append(absorbed_2, operation)
                    /\ UNCHANGED <<value_1, absorbed_1>>
    /\ UNCHANGED <<state, access_count, write_ptr, w_pc, readers, leaked, freed,
                   read_guard, guard_seen, finished, swaps>>

\* Writer::swap: the state word the fetch_and / fetch_or leaves
SwapStateNoToggle(st, ptr) == st

SwapState(st, ptr) == IF ptr = "Value1" THEN BitAnd(st, 3) ELSE BitOr(st, 4)

\* WriteGuard::drop, which calls Writer::swap
WriteGuardDropSwaps ==
    /\ w_pc = "guard"
    /\ w_pc' = "idle"
    /\ finished' = finished \cup {Len(hist)}
    /\ state' = SwapState(state, write_ptr)
    /\ write_ptr' = Switch(write_ptr)
    /\ swaps' = swaps + 1
    /\ ret' = "-"
    /\ UNCHANGED <<access_count, value_1, value_2, op_buffer, readers, leaked, freed,
                   read_guard, guard_seen, hist, absorbed_1, absorbed_2>>

WriteGuardDrop ==
    /\ w_pc = "guard"
    /\ w_pc' = "idle"
    /\ finished' = finished \cup {Len(hist)}
    /\ IF op_buffer = <<>>
       THEN UNCHANGED <<state, write_ptr, swaps>>
       ELSE /\ state' = SwapState(state, write_ptr)
            /\ write_ptr' = Switch(write_ptr)
            /\ swaps' = swaps + 1
    /\ ret' = "-"
    /\ UNCHANGED <<access_count, value_1, value_2, op_buffer, readers, leaked, freed,
                   read_guard, guard_seen, hist, absorbed_1, absorbed_2>>

\* Shared::is_unique_with_increase
IsUniqueWithIncreaseAlways == TRUE

IsUniqueWithIncrease == IsUnique

\* Writer::build_reader
BuildReader ==
    /\ w_pc = "idle"
    /\ IF IsUniqueWithIncrease
       THEN /\ access_count' = access_count + 1
            /\ readers' = readers + 1
            /\ ret' = "build_reader:Some"
       ELSE /\ ret' = "build_reader:None"
            /\ UNCHANGED <<access_count, readers>>
    /\ UNCHANGED <<state, value_1, value_2, write_ptr, op_buffer, w_pc, leaked, freed,
                   read_guard, guard_seen, hist, absorbed_1, absorbed_2,
                   finished, swaps>>

\* Writer::read: the copy write_ptr selects
WriterRead == Value(write_ptr)

\* ------------------------------------------------- simple-left-right: Reader
\* the word Reader::lock stores for the pointer it decoded
LockWordOtherFlag(ptr) == IF ptr = "Value1" THEN 2 ELSE 5

LockWord(ptr) == IF ptr = "Value1" THEN 1 ELSE 6

\* Reader::lock: one atomic fetch_update, then the reference is taken
ReaderLock ==
    /\ readers > 0
    /\ read_guard = "None"
    /\ \E stored \in FromU8NoRead(state), ptr \in FromU8NoRead(state) :
          /\ state' = LockWord(stored)
          /\ read_guard' = ptr
          /\ guard_seen' = [song |-> Value(ptr), log |-> Absorbed(ptr),
                             done |-> SetMax(finished), swaps |-> swaps]
    /\ ret' = "-"
    /\ UNCHANGED <<access_count, value_1, value_2, write_ptr, op_buffer, w_pc,
                   readers, leaked, freed, hist, absorbed_1, absorbed_2,
                   finished, swaps>>

\* the word ReadGuard::drop leaves
ReleaseWordKeepsFlags(st) == BitAnd(st, 3)

ReleaseWordClearsPtr(st) == 0

ReleaseWord(st) == BitAnd(st, 4)

\* ReadGuard::drop
ReadGuardDrop ==
    /\ read_guard # "None"
    /\ state' = ReleaseWord(state)
    /\ read_guard' = "None"
    /\ guard_seen' = NoSeen
    /\ ret' = "-"
    /\ UNCHANGED <<access_count, value_1, value_2, write_ptr, op_buffer, w_pc,
                   readers, leaked, freed, hist, absorbed_1, absorbed_2,
                   finished, swaps>>

\* Shared::should_drop: the count before the decrement was 1
ShouldDropAlways == TRUE

ShouldDrop == access_count = 1

\* Reader::drop: decrements the count and frees the allocation when
\* should_drop says so
ReaderDrop ==
    /\ readers > 0
    /\ read_guard = "None"
    /\ readers' = readers - 1
    /\ access_count' = access_count - 1
    /\ freed' = IF ShouldDrop THEN Append(freed, "Reader") ELSE freed
    /\ ret' = "-"
    /\ UNCHANGED <<state, value_1, value_2, write_ptr, op_buffer, w_pc, leaked,
                   read_guard, guard_seen, hist, absorbed_1, absorbed_2,
                   finished, swaps>>

\* Writer::drop: no WriteGuard borrows the Writer; decrements the count and
\* frees the allocation when should_drop says so
WriterDrop ==
    /\ w_pc = "idle"
    /\ w_pc' = "dropped"
    /\ access_count' = access_count - 1
    /\ freed' = IF ShouldDrop THEN Append(freed, "Writer") ELSE freed
    /\ ret' = "-"
    /\ UNCHANGED <<state, value_1, value_2, write_ptr, op_buffer, readers,
                   leaked, read_guard, guard_seen, hist, absorbed_1,
                   absorbed_2, finished, swaps>>

\* mem::forget(reader): the handle is gone, its drop never runs
ReaderForget ==
    /\ readers > 0
    /\ read_guard = "None"
    /\ readers' = readers - 1
    /\ leaked' = leaked + 1
    /\ ret' = "-"
    /\ UNCHANGED <<freed, state, access_count, value_1, value_2, write_ptr, op_buffer,
                   w_pc, read_guard, guard_seen, hist, absorbed_1,
                   absorbed_2, finished, swaps>>

\* ------------------------------------------------------------ specification
Next ==
    \/ TryLock /\ UNCHANGED evars
    \/ LockCall /\ UNCHANGED evars
    \/ LockSpin /\ UNCHANGED evars
    \/ \E operation \in LROps : ApplyOp(operation) /\ ret' = "-" /\ UNCHANGED evars
    \/ WriteGuardDrop /\ UNCHANGED evars
    \/ BuildReader /\ UNCHANGED evars
    \/ ReaderLock /\ UNCHANGED evars
    \/ ReadGuardDrop /\ UNCHANGED evars
    \/ ReaderDrop /\ UNCHANGED evars
    \/ ReaderForget /\ UNCHANGED evars
    \/ WriterDrop /\ UNCHANGED evars

Spec == Init /\ [][Next]_vars

\* the writer thread keeps running its spin loop, and the reader releases
\* every ReadGuard it takes
SpecLive ==
    /\ Spec
    /\ WF_vars(LockSpin /\ UNCHANGED evars)
    /\ WF_vars(ReadGuardDrop /\ UNCHANGED evars)

\* ----------------------------------------------------------------- samples
\* the Sample buffers the editor creates with Sample::new_mono
Samples == 1..NSamples

\* those and sample 0, the buffer a song holds before it is handed to
\* AudioManager::new
AllSamples == 0..NSamples

\* Sample::len_with_pad of a buffer built by Sample::new_mono
LenWithPad(s) == PAD_SIZE_EACH + SampleFrames + PAD_SIZE_EACH

\* song.samples[idx]: the sample in the slot, as a set of zero or one sample
SampleAt(song, idx) == {p[2] : p \in {q \in song.samples : q[1] = idx}}

\* SamplePlayer::new; the note played is the base note of the sample and the
\* rates agree, so step_size is 1
NewPlayer(s) == [sample |-> s, position |-> PAD_SIZE_EACH]

\* SamplePlayer::check_position is Break
CheckPositionBreak(player) ==
    player.position > LenWithPad(player.sample) - PAD_SIZE_EACH

\* SamplePlayer::step
PlayerStep(player) == [player EXCEPT !.position = @ + 1]

\* the live note after the zip with n buffer frames: SamplePlayer::next is
\* called until it returns None or the buffer is full
RECURSIVE LiveNoteAfter(_, _)
LiveNoteAfter(player, n) ==
    IF n = 0 \/ CheckPositionBreak(player) THEN player
    ELSE LiveNoteAfter(PlayerStep(player), n - 1)

\* ---------------------------------------------------------------- patterns
\* the events create_sample_players! iterates over: pattern[row]
RowEvents(pattern, row) == Range(Index(pattern, row))

\* PatternOrder values
Number(p) == [kind |-> "Number", n |-> p]
EndOfSong == [kind |-> "EndOfSong", n |-> 0]
SkipOrder == [kind |-> "SkipOrder", n |-> 0]

\* Song::get_order: out of bounds is EndOfSong
GetOrderShifted(song, order) ==
    IF order + 1 < Len(song.pattern_order) THEN song.pattern_order[order + 2]
    ELSE EndOfSong

GetOrder(song, order) ==
    IF order < Len(song.pattern_order) THEN song.pattern_order[order + 1]
    ELSE EndOfSong

\* Song::next_pattern: the order it stops at and the pattern there, -1 for None
RECURSIVE NextPattern(_, _)
NextPattern(song, order) ==
    CASE GetOrder(song, order).kind = "Number" ->
            [order |-> order, pattern |-> GetOrder(song, order).n]
      [] GetOrder(song, order).kind = "EndOfSong" ->
            [order |-> order, pattern |-> -1]
      [] OTHER -> NextPattern(song, order + 1)

\* ---------------------------------------------------------------- playback
\* PlaybackSettings values
PatternSettings(idx, should_loop) ==
    [kind |-> "Pattern", idx |-> idx, should_loop |-> should_loop]
OrderSettings(idx, should_loop) ==
    [kind |-> "Order", idx |-> idx, should_loop |-> should_loop]

\* PlaybackPosition::new: <<>> for None.  order is -1 for None.
PlaybackPositionNewUnchecked(settings, song) ==
    IF settings.kind = "Pattern"
    THEN <<[order |-> -1, pattern |-> settings.idx, row |-> 0,
            loop_active |-> settings.should_loop]>>
    ELSE <<[order |-> NextPattern(song, settings.idx).order,
            pattern |-> IF NextPattern(song, settings.idx).pattern = -1
                        THEN 0 ELSE NextPattern(song, settings.idx).pattern,
            row |-> 0, loop_active |-> settings.should_loop]>>

PlaybackPositionNew(settings, song) ==
    IF settings.kind = "Pattern"
    THEN IF settings.idx < MAX_PATTERNS
         THEN <<[order |-> -1, pattern |-> settings.idx, row |-> 0,
                 loop_active |-> settings.should_loop]>>
         ELSE <<>>
    ELSE IF NextPattern(song, settings.idx).pattern = -1 THEN <<>>
         ELSE <<[order |-> NextPattern(song, settings.idx).order,
                 pattern |-> NextPattern(song, settings.idx).pattern,
                 row |-> 0, loop_active |-> settings.should_loop]>>

\* PlaybackState::frames_per_tick
FramesPerTick(samplerate, tempo) == (samplerate * 10) \div tempo

\* create_sample_players!: an index out of bounds panics; otherwise every
\* event of the current row whose sample slot is occupied puts a new player
\* into the voice of its channel
CreateSamplePlayers(ps, song) ==
    IF ps.position.pattern >= MAX_PATTERNS
    THEN [ps EXCEPT !.panic = TRUE]
    ELSE LET events == RowEvents(PatternAt(song, ps.position.pattern),
                                 ps.position.row)
             playing == {e \in events : SampleAt(song, e.sample_instr) # {}}
         IN  IF \E e \in events : e.sample_instr >= MAX_SAMPLES_INSTR
             THEN [ps EXCEPT !.panic = TRUE]
             ELSE [ps EXCEPT !.voices =
                     {v \in @ : \A e \in playing : e.channel # v.channel}
                     \cup {[channel |-> e.channel,
                            player |-> NewPlayer(CHOOSE s \in
                                SampleAt(song, e.sample_instr) : TRUE)] :
                           e \in playing}]

\* PlaybackState::new (the new! macro): <<>> for None.  since_row counts the
\* iterator steps since the voices of the current row were bound, row_len is
\* that count when the voices of the following row were bound (-1: none yet).
PlaybackStateNew(song, samplerate, settings) ==
    IF PlaybackPositionNew(settings, song) = <<>> THEN <<>>
    ELSE <<CreateSamplePlayers(
             [position |-> PlaybackPositionNew(settings, song)[1],
              is_done |-> FALSE,
              tick |-> song.initial_speed,
              frame |-> FramesPerTick(samplerate, song.initial_tempo),
              samplerate |-> samplerate,
              voices |-> {},
              panic |-> FALSE,
              since_row |-> 0,
              row_len |-> -1], song)>>

\* PlaybackPosition::step_row: the new position and whether it is Break
StepRowNoLoop(position, song) ==
    IF position.row + 1 < PatternAt(song, position.pattern).rows
    THEN [position |-> [position EXCEPT !.row = @ + 1], break |-> FALSE]
    ELSE [position |-> [position EXCEPT !.row = 0], break |-> TRUE]

StepRowNoRetry(position, song) ==
    IF position.row + 1 < PatternAt(song, position.pattern).rows
    THEN [position |-> [position EXCEPT !.row = @ + 1], break |-> FALSE]
    ELSE IF position.order # -1
    THEN IF NextPattern(song, position.order).pattern # -1
         THEN [position |-> [position EXCEPT
                    !.row = 0,
                    !.order = NextPattern(song, position.order).order,
                    !.pattern = NextPattern(song, position.order).pattern],
               break |-> FALSE]
         ELSE [position |-> [position EXCEPT
                    !.row = 0,
                    !.order = NextPattern(song, position.order).order],
               break |-> TRUE]
    ELSE [position |-> [position EXCEPT !.row = 0],
          break |-> ~position.loop_active]

StepRow(position, song) ==
    IF position.row + 1 < PatternAt(song, position.pattern).rows
    THEN [position |-> [position EXCEPT !.row = @ + 1], break |-> FALSE]
    ELSE IF position.order # -1
    THEN IF NextPattern(song, position.order).pattern # -1
         THEN [position |-> [position EXCEPT
                    !.row = 0,
                    !.order = NextPattern(song, position.order).order,
                    !.pattern = NextPattern(song, position.order).pattern],
               break |-> FALSE]
         ELSE IF ~position.loop_active
         THEN [position |-> [position EXCEPT
                    !.row = 0,
                    !.order = NextPattern(song, position.order).order],
               break |-> TRUE]
         ELSE IF NextPattern(song, 0).pattern # -1
         THEN [position |-> [position EXCEPT
                    !.row = 0,
                    !.order = NextPattern(song, 0).order,
                    !.pattern = NextPattern(song, 0).pattern],
               break |-> FALSE]
         ELSE [position |-> [position EXCEPT
                    !.row = 0, !.order = NextPattern(song, 0).order],
               break |-> TRUE]
    ELSE [position |-> [position EXCEPT !.row = 0],
          break |-> ~position.loop_active]

\* the frame one call of PlaybackIter::next returns: the sum of the frames
\* its voices yield, as the set of what each voice adds
NextOut(ps) ==
    {[voice |-> v.channel, sample |-> v.player.sample,
      position |-> v.player.position] :
        v \in {w \in ps.voices : ~CheckPositionBreak(w.player)}}

\* one call of PlaybackIter::next (the next! macro) on a state that is not
\* done: every voice yields a frame (unwrap panics on None) and is freed when
\* it reached its end, then step_generic counts frame and tick down and steps
\* the row, and a new row creates its sample players
NextFrameKeep(ps, song) ==
    IF \E v \in ps.voices : CheckPositionBreak(v.player)
    THEN [ps EXCEPT !.voices = {v \in @ : ~CheckPositionBreak(v.player)}]
    ELSE LET stepped == {[v EXCEPT !.player = PlayerStep(@)] : v \in ps.voices}
             voiced == [ps EXCEPT !.voices = stepped, !.since_row = @ + 1]
             fpt == FramesPerTick(ps.samplerate, song.initial_tempo)
         IN  IF voiced.frame > 0
             THEN [voiced EXCEPT !.frame = @ - 1]
             ELSE IF voiced.tick > 0
             THEN [voiced EXCEPT !.frame = fpt, !.tick = @ - 1]
             ELSE IF StepRow(voiced.position, song).break
             THEN [voiced EXCEPT !.frame = fpt, !.tick = song.initial_speed,
                                 !.position = StepRow(@, song).position,
                                 !.is_done = TRUE]
             ELSE CreateSamplePlayers(
                     [voiced EXCEPT !.frame = fpt,
                                    !.tick = song.initial_speed,
                                    !.position = StepRow(@, song).position,
                                    !.since_row = 0,
                                    !.row_len = voiced.since_row],
                     song)

NextFrame(ps, song) ==
    IF \E v \in ps.voices : CheckPositionBreak(v.player)
    THEN [ps EXCEPT !.panic = TRUE]
    ELSE LET stepped == {[v EXCEPT !.player = PlayerStep(@)] : v \in ps.voices}
             voiced == [ps EXCEPT !.voices =
                          {v \in stepped : ~CheckPositionBreak(v.player)},
                                  !.since_row = @ + 1]
             fpt == FramesPerTick(ps.samplerate, song.initial_tempo)
         IN  IF voiced.frame > 0
             THEN [voiced EXCEPT !.frame = @ - 1]
             ELSE IF voiced.tick > 0
             THEN [voiced EXCEPT !.frame = fpt, !.tick = @ - 1]
             ELSE IF StepRow(voiced.position, song).break
             THEN [voiced EXCEPT !.frame = fpt, !.tick = song.initial_speed,
                                 !.position = StepRow(@, song).position,
                                 !.is_done = TRUE]
             ELSE CreateSamplePlayers(
                     [voiced EXCEPT !.frame = fpt,
                                    !.tick = song.initial_speed,
                                    !.position = StepRow(@, song).position,
                                    !.since_row = 0,
                                    !.row_len = voiced.since_row],
                     song)

\* the playback state after the zip with n buffer frames
RECURSIVE PlaybackAfter(_, _, _)
PlaybackAfter(ps, song, n) ==
    IF n = 0 \/ ps.is_done \/ ps.panic THEN ps
    ELSE PlaybackAfter(NextFrame(ps, song), song, n - 1)

\* ------------------------------------------------------------ strong counts
\* occurrences of a sample in a Vec<Sample>
CountIn(samples, s) == Cardinality({i \in 1..Len(samples) : samples[i] = s})

\* handles a song copy holds
SongCount(song, s) == Cardinality({p \in song.samples : p[2] = s})

\* handles the operations waiting in op_buffer hold
BufferCount(s) ==
    Cardinality({i \in 1..Len(op_buffer) :
        op_buffer[i].type = "SetSample" /\ op_buffer[i].b = s})

\* handles held on the editor side
EditorCount(s) ==
    CountIn(gc, s) + SongCount(value_1, s) + SongCount(value_2, s)
    + BufferCount(s)

\* handles a live note and a playback state hold
HandlesOf(live, pb, s) ==
    (IF live # <<>> /\ live[1].sample = s THEN 1 ELSE 0)
    + (IF pb = <<>> THEN 0
       ELSE Cardinality({v \in pb[1].voices : v.player.sample = s}))

\* handles held on the audio thread
AudioCount(s) == HandlesOf(live_note, playback_state, s)

\* Sample::strongcount: Arc::strong_count is the number of live handles
StrongCount(s) == EditorCount(s) + AudioCount(s)

\* the handles the audio thread gives up when it goes from live, pb to the
\* new pair, each with the number of handles the editor side and the
\* collector hold
Released(live, pb, new_live, new_pb) ==
    {[sample |-> s, editor |-> EditorCount(s), collector |-> CountIn(gc, s)] :
        s \in {t \in AllSamples :
                  HandlesOf(new_live, new_pb, t) < HandlesOf(live, pb, t)}}

\* ------------------------------------------------------------ AudioManager
\* songs handed to AudioManager::new: one row in pattern 0 with an event for
\* sample slot 0 on channel 0, speed 1, order list [0]; slot 0 holds sample 0
\* or nothing
InitialSongs ==
    {[DefaultSong EXCEPT
        !.initial_speed = 1,
        !.samples = smp,
        !.patterns = {<<0, [rows |-> 1,
                            data |-> <<[row |-> 0, channel |-> 0,
                                        sample_instr |-> 0]>>]>>},
        !.pattern_order = <<Number(0)>>] : smp \in {{}, {<<0, 0>>}}}

\* Collector::add_sample
AddSample(samples, s) == Append(samples, s)

\* the Collector AudioManager::new fills from song.samples, slot by slot
RECURSIVE CollectorOf(_)
CollectorOf(samples) ==
    IF samples = {} THEN <<>>
    ELSE LET p == CHOOSE q \in samples : \A r \in samples : q[1] <= r[1]
         IN  AddSample(<<>>, p[2]) \o CollectorOf(samples \ {p})

\* AudioManager::new(song)
EngineInit ==
    \E song \in InitialSongs :
        /\ WriterNew(song)
        /\ gc = CollectorOf(song.samples)
        /\ NoStream

\* AudioManager::try_edit_song
TryEditSong ==
    /\ TryLock
    /\ err_op' = NoOp
    /\ UNCHANGED <<gc, stream_comms, to_worker, a_pc, live_note, playback_state,
                   panicked, msgs_sent, last_released>>
    /\ UNCHANGED <<data, cvars>>

\* ValidOperation::new: is the SongOperation valid; the song it looks at is
\* the write target, which SongEdit passes as self.song.read()
IsValidInclusive(op) ==
    CASE op.type = "SetSample" -> op.a <= MAX_SAMPLES_INSTR
      [] op.type = "RemoveSample" -> op.a <= MAX_SAMPLES_INSTR
      [] op.type = "PatternOperation" ->
            /\ op.a < MAX_PATTERNS
            /\ OperationIsValid(PatternAt(Value(write_ptr), op.a), op.op)
      [] OTHER -> TRUE

IsValid(op) ==
    CASE op.type = "SetSample" -> op.a < MAX_SAMPLES_INSTR
      [] op.type = "RemoveSample" -> op.a < MAX_SAMPLES_INSTR
      [] op.type = "PatternOperation" ->
            /\ op.a < MAX_PATTERNS
            /\ OperationIsValid(PatternAt(Value(write_ptr), op.a), op.op)
      [] OTHER -> TRUE

\* SongOperation values the editor applies
SongOperations ==
    {SetSample(i, s) : i \in {0, MAX_SAMPLES_INSTR}, s \in Samples}
    \cup {RemoveSample(0)}

\* SongEdit::apply_operation
ApplyOperation(op) ==
    /\ w_pc = "guard"
    /\ IF IsValid(op)
       THEN /\ ApplyOp(op)
            /\ gc' = IF op.type = "SetSample" THEN AddSample(gc, op.b) ELSE gc
            /\ ret' = "apply_operation:Ok"
            /\ err_op' = NoOp
       ELSE /\ ret' = "apply_operation:Err"
            /\ err_op' = op
            /\ UNCHANGED <<state, access_count, value_1, value_2, write_ptr,
                           op_buffer, w_pc, readers, leaked, freed, read_guard,
                           guard_seen, hist, absorbed_1, absorbed_2,
                           finished, swaps, gc>>
    /\ UNCHANGED <<stream_comms, to_worker, a_pc, live_note, playback_state,
                   panicked, msgs_sent, last_released>>
    /\ UNCHANGED <<data, cvars>>

\* SongEdit::finish / drop
Finish ==
    /\ WriteGuardDrop
    /\ err_op' = NoOp
    /\ UNCHANGED <<gc, stream_comms, to_worker, a_pc, live_note, playback_state,
                   panicked, msgs_sent, last_released>>
    /\ UNCHANGED <<data, cvars>>

\* the Collector::collect retain predicate
RetainNothing(count) == FALSE

Retain(count) == count # 1

\* AudioManager::collect_garbage
CollectGarbage ==
    /\ w_pc = "idle"
    /\ gc' = SelectSeq(gc, LAMBDA s : Retain(StrongCount(s)))
    /\ ret' = "-"
    /\ UNCHANGED <<state, access_count, value_1, value_2, write_ptr, op_buffer,
                   w_pc, readers, leaked, freed, read_guard, guard_seen, hist,
                   absorbed_1, absorbed_2, finished, swaps,
                   stream_comms, to_worker, a_pc, live_note, playback_state,
                   panicked, msgs_sent, last_released>>
    /\ err_op' = NoOp
    /\ UNCHANGED <<data, cvars>>

\* ToWorkerMsg values; a NoteEvent is its sample_instr
NoSettings == PatternSettings(0, FALSE)
Playback(settings) == [type |-> "Playback", sample_instr |-> 0, settings |-> settings]
StopPlayback == [type |-> "StopPlayback", sample_instr |-> 0, settings |-> NoSettings]
PlayEvent(si) == [type |-> "PlayEvent", sample_instr |-> si, settings |-> NoSettings]
StopLiveNote == [type |-> "StopLiveNote", sample_instr |-> 0, settings |-> NoSettings]

\* messages the editor sends
Msgs ==
    {PlayEvent(si) : si \in {0, MAX_SAMPLES_INSTR}}
    \cup {StopLiveNote, StopPlayback}
    \cup {Playback(PatternSettings(idx, FALSE)) : idx \in {0, MAX_PATTERNS}}
    \cup {Playback(OrderSettings(0, FALSE))}

\* rtrb::Producer::push fails: the ring made by RingBuffer::new holds
\* TO_WORKER_CAPACITY messages
IsFullNever(ring) == FALSE

IsFull(ring) == Len(ring) >= TO_WORKER_CAPACITY

\* AudioManager::try_msg_worker
TryMsgWorker(msg) ==
    /\ w_pc = "idle"
    /\ msgs_sent < MaxMsgs
    /\ msgs_sent' = msgs_sent + 1
    /\ IF stream_comms
       THEN IF ~IsFull(to_worker)
            THEN /\ to_worker' = Append(to_worker, msg)
                 /\ ret' = "SendResult::Success"
            ELSE /\ ret' = "SendResult::BufferFull"
                 /\ UNCHANGED to_worker
       ELSE /\ ret' = "SendResult::AudioInactive"
            /\ UNCHANGED to_worker
    /\ UNCHANGED <<state, access_count, value_1, value_2, write_ptr, op_buffer,
                   w_pc, readers, leaked, freed, read_guard, guard_seen, hist,
                   absorbed_1, absorbed_2, finished, swaps,
                   gc, stream_comms, a_pc, live_note, playback_state,
                   panicked, last_released>>
    /\ err_op' = NoOp
    /\ UNCHANGED <<data, cvars>>

\* AudioManager::get_callback: the assert and the unwrap panic on the editor
\* thread and leave the manager as it was
GetCallback ==
    /\ w_pc = "idle"
    /\ IF stream_comms
       THEN /\ ret' = "get_callback:panic"
            /\ UNCHANGED <<state, access_count, value_1, value_2, write_ptr,
                           op_buffer, w_pc, readers, leaked, freed, read_guard,
                           guard_seen, hist, absorbed_1, absorbed_2,
                           finished, swaps, stream_comms,
                           to_worker, a_pc, live_note, playback_state,
                           last_released>>
       ELSE /\ BuildReader
            /\ IF IsUniqueWithIncrease
               THEN /\ stream_comms' = TRUE
                    /\ last_released' = {}
                    /\ to_worker' = <<>>
                    /\ a_pc' = "idle"
                    /\ live_note' = <<>>
                    /\ playback_state' = <<>>
               ELSE UNCHANGED <<stream_comms, to_worker, a_pc, live_note,
                                playback_state, last_released>>
    /\ UNCHANGED <<gc, panicked, msgs_sent>>
    /\ err_op' = NoOp
    /\ UNCHANGED <<data, cvars>>

\* AudioManager::stream_closed
StreamClosed ==
    /\ w_pc = "idle"
    /\ stream_comms
    /\ stream_comms' = FALSE
    /\ ret' = "-"
    /\ UNCHANGED <<state, access_count, value_1, value_2, write_ptr, op_buffer,
                   w_pc, readers, leaked, freed, read_guard, guard_seen, hist,
                   absorbed_1, absorbed_2, finished, swaps,
                   gc, to_worker, a_pc, live_note, playback_state,
                   panicked, msgs_sent, last_released>>
    /\ err_op' = NoOp
    /\ UNCHANGED <<data, cvars>>

\* --------------------------------------------------------------- LiveAudio
\* the ghost record of the handles an audio step releases
NoteReleased(new_live, new_pb) ==
    last_released' =
        last_released \cup Released(live_note, playback_state, new_live, new_pb)

\* the audio step leaves live, pb behind, or panics
AudioStep(live, pb, panic, next_pc) ==
    IF panic
    THEN /\ panicked' = TRUE
         /\ a_pc' = "end"
         /\ UNCHANGED <<live_note, playback_state, last_released>>
    ELSE /\ live_note' = live
         /\ playback_state' = pb
         /\ a_pc' = next_pc
         /\ NoteReleased(live, pb)
         /\ UNCHANGED panicked

\* the buffer the host hands to the callback: OutFrames frames, none of them
\* written by this callback; mix is the set of voice frames summed into it
HostBuffer == [i \in 1..OutFrames |-> [written |-> FALSE, mix |-> {}]]

\* what the live note adds to frame i of the internal buffer (voice -1)
LiveFrame(live, i) ==
    IF live = <<>> THEN {}
    ELSE LET player == LiveNoteAfter(live[1], i - 1)
         IN  IF CheckPositionBreak(player) THEN {}
             ELSE {[voice |-> -1, sample |-> player.sample,
                    position |-> player.position]}

\* what the playback iterator adds to frame i of the internal buffer
PlaybackFrame(pb, song, i) ==
    IF pb = <<>> THEN {}
    ELSE LET ps == PlaybackAfter(pb[1], song, i - 1)
         IN  IF ps.is_done \/ ps.panic THEN {} ELSE NextOut(ps)

\* fill_from_internal after fill_internal_buffer cleared and mixed the
\* internal buffer: every frame of the host's buffer is overwritten
FillFromInternal(live, pb, song) ==
    [i \in 1..OutFrames |->
        [written |-> TRUE,
         mix |-> LiveFrame(live, i) \cup PlaybackFrame(pb, song, i)]]

\* the value fill_internal_buffer returns: is there work to do
FillInternalBufferTrue(live, pb) == TRUE

FillInternalBuffer(live, pb) == ~(live = <<>> /\ pb = <<>>)

\* the host calls the callback with its buffer; fill_internal_buffer, entry:
\* self.song.lock()
CallbackBegin ==
    /\ a_pc = "idle"
    /\ ReaderLock
    /\ a_pc' = "events"
    /\ data' = HostBuffer
    /\ UNCHANGED <<gc, stream_comms, to_worker, live_note, playback_state,
                   panicked, msgs_sent, last_released>>
    /\ err_op' = NoOp
    /\ UNCHANGED cvars

\* fill_internal_buffer, one iteration of the event loop
CallbackPop ==
    /\ a_pc = "events"
    /\ to_worker # <<>>
    /\ to_worker' = Tail(to_worker)
    /\ LET event == Head(to_worker)
           song == Value(read_guard)
       IN  CASE event.type = "StopPlayback" ->
                    AudioStep(live_note, <<>>, FALSE, "events")
             [] event.type = "Playback" ->
                    LET new == PlaybackStateNew(song, SampleRate, event.settings)
                    IN  AudioStep(live_note, new,
                                  new # <<>> /\ new[1].panic, "events")
             [] event.type = "PlayEvent" ->
                    IF event.sample_instr >= MAX_SAMPLES_INSTR
                    THEN AudioStep(live_note, playback_state, TRUE, "events")
                    ELSE IF SampleAt(song, event.sample_instr) = {}
                    THEN AudioStep(live_note, playback_state, FALSE, "events")
                    ELSE AudioStep(
                            <<NewPlayer(CHOOSE s \in
                                SampleAt(song, event.sample_instr) : TRUE)>>,
                            playback_state, FALSE, "events")
             [] event.type = "StopLiveNote" ->
                    AudioStep(<<>>, playback_state, FALSE, "events")
    /\ ret' = "-"
    /\ UNCHANGED <<state, access_count, value_1, value_2, write_ptr, op_buffer,
                   w_pc, readers, leaked, freed, read_guard, guard_seen, hist,
                   absorbed_1, absorbed_2, finished, swaps,
                   gc, stream_comms, msgs_sent>>
    /\ err_op' = NoOp
    /\ UNCHANGED <<data, cvars>>

\* the live note after it was mixed into the buffer
MixLiveNote(live) ==
    IF live = <<>> THEN <<>>
    ELSE IF CheckPositionBreak(LiveNoteAfter(live[1], OutFrames)) THEN <<>>
    ELSE <<LiveNoteAfter(live[1], OutFrames)>>

\* fill_internal_buffer after the event loop found the ring empty, and
\* fill_from_internal when it returned true; a panic unwinds before
\* fill_from_internal
CallbackMix ==
    /\ a_pc = "events"
    /\ to_worker = <<>>
    /\ data' =
         IF /\ FillInternalBuffer(live_note, playback_state)
            /\ playback_state # <<>> =>
                  ~PlaybackAfter(playback_state[1], Value(read_guard),
                                 OutFrames).panic
         THEN FillFromInternal(live_note, playback_state, Value(read_guard))
         ELSE data
    /\ IF playback_state = <<>>
       THEN AudioStep(MixLiveNote(live_note), <<>>, FALSE, "end")
       ELSE LET mixed == PlaybackAfter(playback_state[1],
                                       Value(read_guard), OutFrames)
            IN  AudioStep(MixLiveNote(live_note),
                          IF mixed.is_done THEN <<>> ELSE <<mixed>>,
                          mixed.panic, "end")
    /\ ret' = "-"
    /\ UNCHANGED <<state, access_count, value_1, value_2, write_ptr, op_buffer,
                   w_pc, readers, leaked, freed, read_guard, guard_seen, hist,
                   absorbed_1, absorbed_2, finished, swaps,
                   gc, stream_comms, to_worker, msgs_sent>>
    /\ err_op' = NoOp
    /\ UNCHANGED cvars

\* the callback returns or unwinds: the ReadGuard is dropped and the host has
\* its buffer back
CallbackEnd ==
    /\ a_pc = "end"
    /\ ReadGuardDrop
    /\ data' = <<>>
    /\ a_pc' = IF panicked THEN "dead" ELSE "idle"
    /\ last_released' = {}
    /\ UNCHANGED <<gc, stream_comms, to_worker, live_note, playback_state,
                   panicked, msgs_sent>>
    /\ err_op' = NoOp
    /\ UNCHANGED cvars

\* the stream is closed: the callback closure, and the LiveAudio in it, drops
CallbackDropped ==
    /\ a_pc \in {"idle", "dead"}
    /\ ReaderDrop
    /\ live_note' = <<>>
    /\ playback_state' = <<>>
    /\ a_pc' = "idle"
    /\ NoteReleased(<<>>, <<>>)
    /\ UNCHANGED <<gc, stream_comms, to_worker, panicked, msgs_sent>>
    /\ err_op' = NoOp
    /\ UNCHANGED <<data, cvars>>

EngineNext ==
    \/ TryEditSong
    \/ \E op \in SongOperations :
          (IsValid(op) => Len(hist) < MaxEdits) /\ ApplyOperation(op)
    \/ Finish
    \/ CollectGarbage
    \/ \E msg \in Msgs : TryMsgWorker(msg)
    \/ GetCallback
    \/ StreamClosed
    \/ CallbackBegin
    \/ CallbackPop
    \/ CallbackMix
    \/ CallbackEnd
    \/ CallbackDropped

SpecEngine == EngineInit /\ [][EngineNext]_vars

\* ------------------------------------------------------------- row timing
\* songs the row timing specification plays: pattern 0 has two rows, each
\* with an event for sample slot 0, which holds sample 1
RowSongs ==
    {[DefaultSong EXCEPT
        !.initial_speed = speed,
        !.samples = {<<0, 1>>},
        !.patterns = {<<0, [rows |-> 2,
                            data |-> <<[row |-> 0, channel |-> 0,
                                        sample_instr |-> 0],
                                       [row |-> 1, channel |-> 1,
                                        sample_instr |-> 0]>>]>>},
        !.pattern_order = <<Number(0)>>] : speed \in 1..MaxSpeed}

\* PlaybackState::new(&song, samplerate, settings) on a song nobody edits
RowInit ==
    \E song \in RowSongs, samplerate \in 1..MaxRate,
       settings \in {PatternSettings(0, FALSE), PatternSettings(0, TRUE),
                     OrderSettings(0, FALSE)} :
        /\ WriterNew(song)
        /\ gc = CollectorOf(song.samples)
        /\ stream_comms = FALSE
        /\ to_worker = <<>>
        /\ a_pc = "idle"
        /\ live_note = <<>>
        /\ playback_state = PlaybackStateNew(song, samplerate, settings)
        /\ panicked = FALSE
        /\ msgs_sent = 0
        /\ last_released = {}
        /\ err_op = NoOp
        /\ pat = DefaultPattern
        /\ np = NoCall
        /\ data = <<>>
        /\ sp = NoPlayer

\* PlaybackIter::next, one call
IterNext ==
    /\ playback_state # <<>>
    /\ ~playback_state[1].is_done
    /\ playback_state' = <<NextFrame(playback_state[1], value_1)>>
    /\ UNCHANGED <<state, access_count, value_1, value_2, write_ptr, op_buffer,
                   w_pc, readers, leaked, freed, read_guard, guard_seen, ret, hist,
                   absorbed_1, absorbed_2, finished, swaps,
                   gc, stream_comms, to_worker, a_pc, live_note,
                   panicked, msgs_sent, last_released, err_op>>
    /\ UNCHANGED <<data, cvars>>

RowNext == IterNext

SpecRow == RowInit /\ [][RowNext]_vars

\* ------------------------------------------------------------ command ring
\* messages waiting in the ring when the ring specification starts
RingMsgs ==
    {PlayEvent(0), StopLiveNote, StopPlayback, Playback(OrderSettings(1, TRUE))}

\* the manager after AudioManager::new(song), get_callback and up to
\* TO_WORKER_CAPACITY successful try_msg_worker calls, no callback run yet
RingInit ==
    \E song \in InitialSongs, n \in 0..TO_WORKER_CAPACITY :
      \E ring \in [1..n -> RingMsgs] :
        /\ state = 0
        /\ access_count = 2
        /\ value_1 = song
        /\ value_2 = song
        /\ write_ptr = "Value2"
        /\ op_buffer = <<>>
        /\ w_pc = "idle"
        /\ readers = 1
        /\ leaked = 0
        /\ freed = <<>>
        /\ read_guard = "None"
        /\ guard_seen = NoSeen
        /\ ret = "-"
        /\ hist = <<>>
        /\ absorbed_1 = <<>>
        /\ absorbed_2 = <<>>
        /\ finished = {0}
        /\ swaps = 0
        /\ gc = CollectorOf(song.samples)
        /\ stream_comms = TRUE
        /\ to_worker = ring
        /\ a_pc = "idle"
        /\ live_note = <<>>
        /\ playback_state = <<>>
        /\ panicked = FALSE
        /\ msgs_sent = 0
        /\ last_released = {}
        /\ err_op = NoOp
        /\ pat = DefaultPattern
        /\ np = NoCall
        /\ data = <<>>
        /\ sp = NoPlayer

\* the editor sends messages and opens and closes streams while the callback
\* runs; the song is not edited
RingNext ==
    \/ \E msg \in Msgs : TryMsgWorker(msg)
    \/ GetCallback
    \/ StreamClosed
    \/ CallbackBegin
    \/ CallbackPop
    \/ CallbackMix
    \/ CallbackEnd
    \/ CallbackDropped

SpecRing == RingInit /\ [][RingNext]_vars

\* ------------------------------------------------------- sample replacement
\* the song of the replacement specification: slot 0 holds sample 0
SwapSong == CHOOSE song \in InitialSongs : song.samples # {}

\* AudioManager::new(SwapSong)
SwapInit ==
    /\ WriterNew(SwapSong)
    /\ gc = CollectorOf(SwapSong.samples)
    /\ NoStream

\* edits of slot 0 and of slot 1
SwapOps ==
    {SetSample(i, s) : i \in {0, 1}, s \in Samples} \cup {RemoveSample(0)}

\* the editor replaces and removes samples, up to MaxOps operations in all,
\* and plays slot 0 while streams come and go
SwapNext ==
    \/ TryEditSong
    \/ \E op \in SwapOps : ApplyOperation(op)
    \/ Finish
    \/ TryMsgWorker(PlayEvent(0))
    \/ GetCallback
    \/ StreamClosed
    \/ CallbackBegin
    \/ CallbackPop
    \/ CallbackMix
    \/ CallbackEnd
    \/ CallbackDropped

SpecSwap == SwapInit /\ [][SwapNext]_vars

\* --------------------------------------------------------- Pattern methods
\* row counts and rows the pattern specification draws: the small ones and
\* those around MAX_ROWS
PatLens == (0..PatRows) \cup {MAX_ROWS - 1, MAX_ROWS, MAX_ROWS + 1}

\* positions whose events the pattern specification stores
PatPositions ==
    {Position(r, c) : r \in (0..(PatRows - 1)) \cup {MAX_ROWS - 1},
                      c \in {0, MAX_CHANNELS - 1}}

\* positions the pattern specification asks operation_is_valid about
ValidatedPositions ==
    {Position(r, c) : r \in {0, 1, MAX_ROWS - 1, MAX_ROWS},
                      c \in {0, MAX_CHANNELS - 1, MAX_CHANNELS, MAX_CHANNELS + 1}}

\* PatternOperation values the pattern specification asks about
PatOps ==
    {OpSetLength(n) : n \in PatLens}
    \cup {OpSetEvent(p, 0) : p \in ValidatedPositions}
    \cup {OpRemoveEvent(Position(MAX_ROWS, MAX_CHANNELS))}

\* Pattern::new(len) for a len that passes its assert; the double buffer and
\* the engine are left alone
PatInit ==
    \E len \in {n \in PatLens : n <= MAX_ROWS} :
        /\ WriterNew(DefaultSong)
        /\ gc = <<>>
        /\ stream_comms = FALSE
        /\ to_worker = <<>>
        /\ a_pc = "idle"
        /\ live_note = <<>>
        /\ playback_state = <<>>
        /\ panicked = FALSE
        /\ msgs_sent = 0
        /\ last_released = {}
        /\ err_op = NoOp
        /\ pat = [rows |-> len, data |-> <<>>]
        /\ np = NoCall
        /\ data = <<>>
        /\ sp = NoPlayer

\* a Pattern method leaves everything but the Pattern alone
PatternOnly ==
    UNCHANGED <<state, access_count, value_1, value_2, write_ptr, op_buffer,
                w_pc, readers, leaked, freed, read_guard, guard_seen, hist,
                absorbed_1, absorbed_2, finished, swaps, gc, stream_comms,
                to_worker, a_pc, live_note, playback_state, panicked,
                msgs_sent, last_released, err_op, data, sp, np>>

\* pattern.set_length(new_len)
PatternSetLength(new_len) ==
    /\ pat' = SetLength(pat, new_len).pattern
    /\ ret' = IF SetLength(pat, new_len).panic THEN "set_length:panic" ELSE "-"
    /\ PatternOnly

\* pattern.set_event(position, event)
PatternSetEvent(position, event) ==
    /\ Len(pat.data) < MaxEvents \/ BinarySearch(pat.data, position).ok
    /\ pat' = SetEvent(pat, position, event).pattern
    /\ ret' = IF SetEvent(pat, position, event).panic
              THEN "set_event:panic" ELSE "-"
    /\ PatternOnly

\* pattern.remove_event(position)
PatternRemoveEvent(position) ==
    /\ pat' = RemoveEvent(pat, position).pattern
    /\ ret' = "-"
    /\ PatternOnly

\* pattern.operation_is_valid(&op)
PatternOperationIsValid(op) ==
    /\ ret' = IF OperationIsValid(pat, op) THEN "operation_is_valid:true"
              ELSE "operation_is_valid:false"
    /\ UNCHANGED pat
    /\ PatternOnly

PatNext ==
    \/ \E new_len \in PatLens : PatternSetLength(new_len)
    \/ \E position \in PatPositions, event \in {0, 1} :
          PatternSetEvent(position, event)
    \/ \E position \in PatPositions : PatternRemoveEvent(position)
    \/ \E op \in PatOps : PatternOperationIsValid(op)

SpecPattern == PatInit /\ [][PatNext]_vars

\* ---------------------------------------------------------- pattern editing
\* the song the editing specification starts from: pattern 0 has two rows and
\* no event
EditSong == [DefaultSong EXCEPT !.patterns = {<<0, [rows |-> 2, data |-> <<>>]>>}]

\* AudioManager::new(EditSong)
EditInit ==
    /\ WriterNew(EditSong)
    /\ gc = <<>>
    /\ NoStream

\* SongOperation values the editor applies to the patterns
EditOps ==
    {PatternOperation(0, OpSetLength(n)) : n \in {0, 1, MAX_ROWS}}
    \cup {PatternOperation(0, OpSetEvent(Position(r, c), 0)) :
             r \in {0, 1}, c \in {0, MAX_CHANNELS}}
    \cup {PatternOperation(0, OpRemoveEvent(Position(0, 0))),
          PatternOperation(MAX_PATTERNS, OpSetLength(1))}

\* the editor edits the patterns while a stream is opened, runs its callback
\* and is closed; no message is sent
EditNext ==
    \/ TryEditSong
    \/ \E op \in EditOps : ApplyOperation(op)
    \/ Finish
    \/ GetCallback
    \/ StreamClosed
    \/ CallbackBegin
    \/ CallbackMix
    \/ CallbackEnd
    \/ CallbackDropped

SpecEdit == EditInit /\ [][EditNext]_vars

\* --------------------------------------------------------------- order list
\* a full order list of SkipOrder entries, the last one replaced by last
FullOrders(last) ==
    [i \in 1..MAX_ORDERS |-> IF i = MAX_ORDERS THEN last ELSE SkipOrder]

\* order lists the order specification draws: every list of up to MaxOrders
\* entries (EndOfSong behind them), and two full lists
OrderLists ==
    UNION {[1..n -> {Number(0), Number(1), EndOfSong, SkipOrder}] :
             n \in 0..MaxOrders}
    \cup {FullOrders(SkipOrder), FullOrders(Number(1))}

\* order indexes next_pattern is called with
OrderStarts == (0..(MaxOrders + 1)) \cup {MAX_ORDERS - 1, MAX_ORDERS, 65535}

\* a song with one of the order lists, nobody edits it
OrderInit ==
    \E orders \in OrderLists :
        /\ WriterNew([DefaultSong EXCEPT !.pattern_order = orders])
        /\ gc = <<>>
        /\ stream_comms = FALSE
        /\ to_worker = <<>>
        /\ a_pc = "idle"
        /\ live_note = <<>>
        /\ playback_state = <<>>
        /\ panicked = FALSE
        /\ msgs_sent = 0
        /\ last_released = {}
        /\ err_op = NoOp
        /\ pat = DefaultPattern
        /\ np = NoCall
        /\ data = <<>>
        /\ sp = NoPlayer

\* song.next_pattern(&mut order) is called with order = start
NextPatternCall(start) ==
    /\ np.pc = "done"
    /\ np' = [start |-> start, order |-> start, pc |-> "loop", pattern |-> -1]
    /\ ret' = "-"
    /\ UNCHANGED <<state, access_count, value_1, value_2, write_ptr, op_buffer,
                   w_pc, readers, leaked, freed, read_guard, guard_seen, hist,
                   absorbed_1, absorbed_2, finished, swaps, gc, stream_comms,
                   to_worker, a_pc, live_note, playback_state, panicked,
                   msgs_sent, last_released, err_op, data, sp, pat>>

\* one iteration of the loop of next_pattern
NextPatternLoop ==
    /\ np.pc = "loop"
    /\ CASE GetOrder(value_1, np.order).kind = "Number" ->
               /\ np' = [np EXCEPT !.pc = "done",
                                   !.pattern = GetOrder(value_1, np.order).n]
               /\ ret' = "next_pattern:Some"
         [] GetOrder(value_1, np.order).kind = "EndOfSong" ->
               /\ np' = [np EXCEPT !.pc = "done"]
               /\ ret' = "next_pattern:None"
         [] OTHER ->
               /\ np' = [np EXCEPT !.order = @ + 1]
               /\ ret' = "-"
    /\ UNCHANGED <<state, access_count, value_1, value_2, write_ptr, op_buffer,
                   w_pc, readers, leaked, freed, read_guard, guard_seen, hist,
                   absorbed_1, absorbed_2, finished, swaps, gc, stream_comms,
                   to_worker, a_pc, live_note, playback_state, panicked,
                   msgs_sent, last_released, err_op, data, sp, pat>>

OrderNext ==
    \/ \E start \in OrderStarts : NextPatternCall(start)
    \/ NextPatternLoop

SpecOrder == OrderInit /\ [][OrderNext]_vars

\* ------------------------------------------------------------- row voices
\* channels that carry events in the voice specification
PlayChannels == 0..2

\* what row 1 holds for one channel: no event (-1), an event for the occupied
\* slot 0, for the empty slot 1, or for the slot number MAX_SAMPLES_INSTR,
\* which is a u8 outside the sample array
PlayChoices == {-1, 0, 1, MAX_SAMPLES_INSTR}

\* the events of row 1 for a choice per channel, in channel order
RECURSIVE RowOneEvents(_, _)
RowOneEvents(choice, c) ==
    IF c \notin PlayChannels THEN <<>>
    ELSE (IF choice[c] = -1 THEN <<>>
          ELSE <<[row |-> 1, channel |-> c, sample_instr |-> choice[c]]>>)
         \o RowOneEvents(choice, c + 1)

\* songs the voice specification plays: slot 0 holds sample 1, pattern 0 has
\* two rows, row 0 starts a voice on every channel
PlaySongs ==
    {[DefaultSong EXCEPT
        !.initial_speed = speed,
        !.samples = {<<0, 1>>},
        !.patterns = {<<0, [rows |-> 2,
                            data |-> [c \in 1..3 |->
                                        [row |-> 0, channel |-> c - 1,
                                         sample_instr |-> 0]]
                                     \o RowOneEvents(choice, 0)]>>}] :
       speed \in 1..MaxSpeed, choice \in [PlayChannels -> PlayChoices]}

\* PlaybackState::new(&song, samplerate, settings) on a song nobody edits
PlayInit ==
    \E song \in PlaySongs, should_loop \in BOOLEAN :
        /\ WriterNew(song)
        /\ gc = CollectorOf(song.samples)
        /\ stream_comms = FALSE
        /\ to_worker = <<>>
        /\ a_pc = "idle"
        /\ live_note = <<>>
        /\ playback_state = PlaybackStateNew(song, SampleRate,
                                             PatternSettings(0, should_loop))
        /\ panicked = FALSE
        /\ msgs_sent = 0
        /\ last_released = {}
        /\ err_op = NoOp
        /\ pat = DefaultPattern
        /\ np = NoCall
        /\ data = <<>>
        /\ sp = NoPlayer

\* the iterator is called until it panics
PlayNext == playback_state # <<>> /\ ~playback_state[1].panic /\ IterNext

SpecPlay == PlayInit /\ [][PlayNext]_vars

\* ------------------------------------------------------------ order looping
\* songs of the looping specification: patterns 0 and 1 have one row and no
\* event, speed 1, and every order list of two entries (EndOfSong behind them)
LoopSongs ==
    {[DefaultSong EXCEPT
        !.initial_speed = 1,
        !.patterns = {<<0, [rows |-> 1, data |-> <<>>]>>,
                      <<1, [rows |-> 1, data |-> <<>>]>>},
        !.pattern_order = orders] :
      orders \in [1..2 -> {Number(0), Number(1), EndOfSong, SkipOrder}]}

\* playback by order was started on one of the songs, and SetOrder
\* operations have since made the order list that of another
LoopInit ==
    \E started \in LoopSongs, song \in LoopSongs, idx \in 0..1,
       should_loop \in BOOLEAN :
        /\ PlaybackStateNew(started, 1, OrderSettings(idx, should_loop)) # <<>>
        /\ WriterNew(song)
        /\ gc = <<>>
        /\ stream_comms = FALSE
        /\ to_worker = <<>>
        /\ a_pc = "idle"
        /\ live_note = <<>>
        /\ playback_state =
              PlaybackStateNew(started, 1, OrderSettings(idx, should_loop))
        /\ panicked = FALSE
        /\ msgs_sent = 0
        /\ last_released = {}
        /\ err_op = NoOp
        /\ pat = DefaultPattern
        /\ np = NoCall
        /\ data = <<>>
        /\ sp = NoPlayer

\* the iterator is called until the state is done
LoopNext == IterNext

SpecLoop == LoopInit /\ [][LoopNext]_vars

\* ----------------------------------------------------------- sample player
\* sample rates and notes the sample player specification draws from: the
\* rates are powers of two and the notes whole octaves apart, so that every
\* step size and every position is a binary fraction f32 holds exactly
PlayerRates == {1, 2}
PlayerNotes == {60, 72}

\* Sample::len_with_pad of a sample built by new_mono from len frames
LenWithPadOf(len) == PAD_SIZE_EACH + len + PAD_SIZE_EACH

\* SamplePlayer::compute_step_size, as the fraction <<numerator, denominator>>:
\* 2^((playing_note - sample_base_note) / 12) * (out_rate / in_rate)
ComputeStepSize(in_rate, out_rate, sample_base_note, playing_note) ==
    <<2 ^ ((playing_note - sample_base_note) \div 12) * out_rate, in_rate>>

\* SamplePlayer::new over a sample of len frames; position is the pair of
\* the whole part and the numerator of the fraction, whose denominator is
\* that of step_size; frames and nones count what next returned
SamplePlayerNew(len, in_rate, out_rate, base_note, note) ==
    [len |-> len, in_rate |-> in_rate, out_rate |-> out_rate,
     base_note |-> base_note, note |-> note,
     position |-> <<PAD_SIZE_EACH, 0>>,
     step_size |-> ComputeStepSize(in_rate, out_rate, base_note, note),
     frames |-> 0, nones |-> 0]

\* SamplePlayer::check_position is Break
CheckPositionNoPad(player) == player.position[1] > player.len

CheckPositionLate(player) == player.position[1] > LenWithPadOf(player.len)

CheckPosition(player) ==
    player.position[1] > LenWithPadOf(player.len) - PAD_SIZE_EACH

\* the frame indices compute_linear hands to Sample::compute with N = 2
ComputeLinear(player) == {player.position[1], player.position[1] + 1}

\* the frame index compute_nearest hands to Sample::index: the next frame
\* from a fraction of 0.5 on
ComputeNearest(player) ==
    IF 2 * player.position[2] < player.step_size[2]
    THEN {player.position[1]}
    ELSE {player.position[1] + 1}

\* SamplePlayer::step: the fraction takes the step, its whole part moves over
Step(player) ==
    LET sum == player.position[2] + player.step_size[1]
        floor == sum \div player.step_size[2]
    IN  [player EXCEPT !.position =
            <<player.position[1] + floor, sum - floor * player.step_size[2]>>]

\* players over samples of 0..MaxFrames frames
SampleInit ==
    \E len \in 0..MaxFrames, in_rate \in PlayerRates, out_rate \in PlayerRates,
       base_note \in PlayerNotes, note \in PlayerNotes :
        /\ note >= base_note
        /\ WriterNew(DefaultSong)
        /\ gc = <<>>
        /\ stream_comms = FALSE
        /\ to_worker = <<>>
        /\ a_pc = "idle"
        /\ live_note = <<>>
        /\ playback_state = <<>>
        /\ panicked = FALSE
        /\ msgs_sent = 0
        /\ last_released = {}
        /\ err_op = NoOp
        /\ pat = DefaultPattern
        /\ np = NoCall
        /\ data = <<>>
        /\ sp = SamplePlayerNew(len, in_rate, out_rate, base_note, note)

\* player.next(): None at the end of the sample, otherwise a frame and a step
SamplePlayerNext ==
    /\ IF CheckPosition(sp)
       THEN /\ sp.nones < MaxNones
            /\ sp' = [sp EXCEPT !.nones = @ + 1]
            /\ ret' = "next:None"
       ELSE /\ sp' = [Step(sp) EXCEPT !.frames = @ + 1]
            /\ ret' = "next:Some"
    /\ UNCHANGED <<state, access_count, value_1, value_2, write_ptr, op_buffer,
                   w_pc, readers, leaked, freed, read_guard, guard_seen, hist,
                   absorbed_1, absorbed_2, finished, swaps, gc, stream_comms,
                   to_worker, a_pc, live_note, playback_state, panicked,
                   msgs_sent, last_released, err_op, data, pat, np>>

SampleNext == SamplePlayerNext

SpecSample == SampleInit /\ [][SampleNext]_vars

\* ------------------------------------------------------------------ claims
\* the copy the next_read_ptr bit of a state word selects
NextReadPtr(st) == IF Bit(st, 2) = 0 THEN "Value1" ELSE "Value2"

\* number of times an operation occurs in a sequence
Occurrences(seq, x) == Cardinality({i \in 1..Len(seq) : seq[i] = x})

\* C1: while a ReadGuard is outstanding, the copy it refers to is exactly what
\* it was when the guard was taken: the writer never mutates that copy.
C1_ReadGuardStable ==
    read_guard # "None" =>
        /\ Value(read_guard) = guard_seen.song
        /\ Absorbed(read_guard) = guard_seen.log

\* a ReadGuard is held while the writer applies operations after a swap
C1_Witness ==
    /\ read_guard # "None"
    /\ w_pc = "guard"
    /\ op_buffer # <<>>
    /\ swaps > 0

\* C2: the value seen through a ReadGuard is the initial value with the
\* operations of a prefix of the finished WriteGuards applied in order.
C2_SeenIsFinishedPrefix ==
    read_guard # "None" =>
        \E n \in finished :
            guard_seen.song = AbsorbAll(DefaultSong, SubSeq(hist, 1, n))

\* C3: each copy is the initial value with a prefix of the whole apply_op
\* sequence applied.
C3_CopiesArePrefixes ==
    \A ptr \in Ptrs :
        \E n \in 0..Len(hist) :
            Value(ptr) = AbsorbAll(DefaultSong, SubSeq(hist, 1, n))

\* C4: Reader::lock is enabled whenever the Reader has no guard out, whatever
\* the writer does, and the guard it returns refers to the copy the
\* next_read_ptr bit selected at the atomic update.
C4_LockNeverBlocks ==
    /\ []((readers > 0 /\ read_guard = "None") => ENABLED ReaderLock)
    /\ [][ReaderLock => read_guard' = NextReadPtr(state)]_vars

\* Reader::lock returned a guard while a WriteGuard was held, after a swap
C4_Witness ==
    /\ read_guard # "None"
    /\ read_guard = NextReadPtr(state)
    /\ w_pc = "guard"
    /\ swaps > 0

\* C5: a writer waiting in Writer::lock eventually holds the WriteGuard.
C5_LockEventuallyAcquired == (w_pc = "lock") ~> (w_pc = "guard")

\* the writer waits in lock while the reader holds the guard taken before the
\* swap
C5_Witness ==
    /\ w_pc = "lock"
    /\ read_guard = write_ptr

\* C6: try_lock is enabled whenever the Writer is not borrowed by a guard, and
\* returns None exactly when a ReadGuard is outstanding on the write target;
\* such a guard was taken before the last swap.
C6_TryLockNoneIffReadOnTarget ==
    /\ []((w_pc = "idle") => ENABLED TryLock)
    /\ [][TryLock => ((ret' = "try_lock:None") <=> (read_guard = write_ptr))]_vars
    /\ []((read_guard = write_ptr) => (guard_seen.swaps < swaps))

\* try_lock returned None
C6_Witness ==
    /\ ret = "try_lock:None"
    /\ read_guard = write_ptr
    /\ w_pc = "idle"

C8_BuildReaderIffNone ==
    /\ [][BuildReader =>
            ((ret' = "build_reader:Some") <=> (readers + leaked = 0))]_vars
    /\ [](readers + leaked <= 1)

\* build_reader returned None because of a leaked Reader
C8_Witness ==
    /\ ret = "build_reader:None"
    /\ leaked = 1
    /\ readers = 0

\* C9: whenever the audio thread holds a handle of a sample (live note or
\* pattern voice), the editor side (collector, song copy or pending operation)
\* holds one too, and it held one at every release the audio thread made: the
\* audio thread never drops the last strong reference.
C9_AudioNeverDropsLast ==
    /\ \A s \in AllSamples : AudioCount(s) > 0 => EditorCount(s) > 0
    /\ \A r \in last_released : r.editor > 0

\* inside a callback the audio thread released a handle of a sample that only
\* the collector still held
C9_Witness ==
    /\ a_pc = "end"
    /\ \E r \in last_released : r.editor = 1 /\ r.collector = 1

\* C10: the audio callback never panics.
C10_NeverPanics == ~panicked

\* C11: apply_operation on an operation that fails validation (a sample slot
\* that is not below MAX_SAMPLES_INSTR) returns Err carrying that operation and
\* changes nothing: neither song copy, the operation buffer, the collector,
\* the state word and write pointer (nothing is published), nor the ring.
C11_InvalidRejected ==
    [][\A op \in SongOperations :
          (op.a >= MAX_SAMPLES_INSTR /\ ApplyOperation(op)) =>
              /\ ret' = "apply_operation:Err"
              /\ err_op' = op
              /\ UNCHANGED <<value_1, value_2, op_buffer, gc, state, write_ptr,
                             hist, swaps, to_worker>>]_vars

\* an invalid operation was rejected inside an edit that already holds an
\* accepted operation, while a Reader exists
C11_Witness ==
    /\ ret = "apply_operation:Err"
    /\ err_op.a >= MAX_SAMPLES_INSTR
    /\ w_pc = "guard"
    /\ op_buffer # <<>>
    /\ readers > 0

\* C12: playback by order without loop advances through the order list: when
\* the last row of the current pattern is finished, step_row moves to the
\* next order entry that names a pattern, and breaks (the state becomes done)
\* when there is none before EndOfSong.
C12_OrderAdvances ==
    \A song \in {value_1, value_2} :
        (/\ playback_state # <<>>
         /\ playback_state[1].position.order # -1
         /\ ~playback_state[1].position.loop_active
         /\ playback_state[1].position.row + 1
                >= PatternAt(song, playback_state[1].position.pattern).rows)
        => LET position == playback_state[1].position
               next == NextPattern(song, position.order + 1)
               step == StepRow(position, song)
           IN  IF next.pattern = -1 THEN step.break
               ELSE /\ ~step.break
                    /\ step.position.order = next.order
                    /\ step.position.pattern = next.pattern
                    /\ step.position.row = 0

\* C13: each row lasts exactly initial_speed * frames_per_tick iterator
\* steps: the voices of the next row are bound that many steps after the
\* voices of the current row.
C13_RowLength ==
    (playback_state # <<>> /\ playback_state[1].row_len # -1) =>
        playback_state[1].row_len
            = value_1.initial_speed
              * FramesPerTick(playback_state[1].samplerate,
                              value_1.initial_tempo)

\* the live note and playback state a command is stated to leave
CommandResult(event, live, pb, song) ==
    CASE event.type = "Playback" ->
            <<live, PlaybackStateNew(song, SampleRate, event.settings)>>
      [] event.type = "StopPlayback" -> <<live, <<>>>>
      [] event.type = "PlayEvent" ->
            IF SampleAt(song, event.sample_instr) # {}
            THEN <<<<NewPlayer(CHOOSE s \in
                        SampleAt(song, event.sample_instr) : TRUE)>>, pb>>
            ELSE <<live, pb>>
      [] event.type = "StopLiveNote" -> <<<<>>, pb>>

\* C14: the callback applies the queued commands one after another in the
\* order they were sent: a sent command goes to the back of the ring, each
\* iteration of the event loop takes the front command, leaves the state that
\* command describes and goes on with the next, and the loop ends only when
\* the ring is empty.
C14_CommandsApplied ==
    /\ [][\A msg \in Msgs :
            (TryMsgWorker(msg) /\ ret' = "SendResult::Success")
                => to_worker' = Append(to_worker, msg)]_vars
    /\ [][CallbackPop =>
            /\ to_worker' = Tail(to_worker)
            /\ a_pc' = "events"
            /\ <<live_note', playback_state'>>
                  = CommandResult(Head(to_worker), live_note, playback_state,
                                  Value(read_guard))]_vars
    /\ [][(a_pc = "events" /\ a_pc' # "events") => to_worker = <<>>]_vars

\* C15: try_msg_worker returns AudioInactive exactly when no stream is
\* installed, BufferFull exactly when a stream is installed and the ring holds
\* TO_WORKER_CAPACITY undrained commands, and Success otherwise; the command
\* is enqueued on Success and the ring is unchanged otherwise, so the ring
\* never holds more than TO_WORKER_CAPACITY commands.
C15_SendResult ==
    /\ [][\A msg \in Msgs : TryMsgWorker(msg) =>
            /\ (ret' = "SendResult::AudioInactive") <=> ~stream_comms
            /\ (ret' = "SendResult::BufferFull")
                  <=> (stream_comms /\ Len(to_worker) = TO_WORKER_CAPACITY)
            /\ (ret' = "SendResult::Success")
                  <=> (stream_comms /\ Len(to_worker) < TO_WORKER_CAPACITY)
            /\ IF ret' = "SendResult::Success"
               THEN to_worker' = Append(to_worker, msg)
               ELSE to_worker' = to_worker]_vars
    /\ [](Len(to_worker) <= TO_WORKER_CAPACITY)

\* try_msg_worker found the ring of the installed stream full
C15_Witness ==
    /\ ret = "SendResult::BufferFull"
    /\ stream_comms
    /\ Len(to_worker) = TO_WORKER_CAPACITY

\* the song the last finished edit published
Published == Value(NextReadPtr(state))

\* C16: once RemoveSample has been applied and its edit finished, so that the
\* published song no longer holds the sample in any slot, and no voice or live
\* note holds it, collect_garbage releases it from the collector, with or
\* without a Reader.
C16_RemovedIsCollected ==
    [][CollectGarbage =>
        \A s \in AllSamples :
            (/\ \E i \in 1..Len(hist) : hist[i].type = "RemoveSample"
             /\ SongCount(Published, s) = 0
             /\ AudioCount(s) = 0)
            => CountIn(gc', s) = 0]_vars

\* the song of the replacement specification as the operations applied so
\* far describe it
Intended == AbsorbAll(SwapSong, hist)

\* C17: an edit never changes the sample of a voice: the live voice keeps its
\* sample until the callback ends or replaces it; and when the callback took
\* its guard after every operation applied so far was finished (published), a
\* PlayEvent for a slot that SetSample filled last leaves a live voice over
\* the sample of that SetSample.
C17_VoiceSamples ==
    /\ [][(live_note # <<>> /\ live_note' # live_note)
              => (CallbackPop \/ CallbackMix \/ CallbackDropped)]_vars
    /\ [][(/\ CallbackPop
           /\ Head(to_worker).type = "PlayEvent"
           /\ guard_seen.done = Len(hist)
           /\ SampleAt(Intended, Head(to_worker).sample_instr) # {})
          => live_note' = <<NewPlayer(CHOOSE s \in
                 SampleAt(Intended, Head(to_worker).sample_instr) : TRUE)>>]_vars

\* C18: when no WriteGuard is out, Writer::read returns the initial value with
\* every operation applied so far, and the copy it returns has absorbed at
\* least as many operations as the copy a Reader locking now would see.
C18_ReadIsNewest ==
    (w_pc = "idle") =>
        /\ WriterRead = AbsorbAll(DefaultSong, hist)
        /\ Len(Absorbed(write_ptr)) >= Len(Absorbed(NextReadPtr(state)))

\* C19: while one ReadGuard is held the writer completes at most one swap;
\* after that swap no WriteGuard is obtained as long as the guard is held; and
\* a guard taken after the old one was dropped refers to the copy the swap
\* published, the one that is not the write target.
C19_OneSwapPerReadGuard ==
    /\ []((read_guard # "None") => (swaps <= guard_seen.swaps + 1))
    /\ [][(read_guard # "None" /\ guard_seen.swaps < swaps /\ w_pc # "guard")
              => w_pc' # "guard"]_vars
    /\ [][ReaderLock => read_guard' = Switch(write_ptr)]_vars

\* the writer swapped once under the ReadGuard and its next try_lock failed
C19_Witness ==
    /\ read_guard # "None"
    /\ swaps = guard_seen.swaps + 1
    /\ ret = "try_lock:None"

\* no Writer and no Reader handle is left
NoHandle == w_pc = "dropped" /\ readers = 0 /\ leaked = 0

\* C20: the shared allocation is freed at most once; it is freed by the drop
\* of the last handle and is never freed while the Writer or a Reader is
\* alive; once every handle was dropped it is freed; and a Reader that locks
\* after the Writer was dropped gets the copy the last swap published.
C20_FreedOnceByLast ==
    /\ [](Len(freed) <= 1)
    /\ [](freed # <<>> <=> NoHandle)
    /\ [][freed' # freed =>
              /\ ReaderDrop \/ WriterDrop
              /\ freed' = <<IF ReaderDrop THEN "Reader" ELSE "Writer">>
              /\ access_count' = 0]_vars
    /\ [][(w_pc = "dropped" /\ ReaderLock) =>
              /\ freed = <<>>
              /\ read_guard' = Switch(write_ptr)
              /\ guard_seen'.song = Value(Switch(write_ptr))]_vars

\* after at least one swap the Reader outlived the Writer and its drop freed
\* the allocation
C20_Witness ==
    /\ freed = <<"Reader">>
    /\ w_pc = "dropped"
    /\ swaps > 0

\* C21: operation_is_valid accepts SetLength{new_len} exactly when new_len is
\* at most MAX_ROWS.
C21_SetLengthValid ==
    [][\A new_len \in PatLens :
          PatternOperationIsValid(OpSetLength(new_len)) =>
              ((ret' = "operation_is_valid:true") <=> (new_len <= MAX_ROWS))]_vars

\* C22: operation_is_valid accepts SetEvent exactly when position.row is below
\* the row count and position.channel is below MAX_CHANNELS.
C22_SetEventValid ==
    [][\A position \in ValidatedPositions :
          PatternOperationIsValid(OpSetEvent(position, 0)) =>
              ((ret' = "operation_is_valid:true") <=>
                  (position.row < pat.rows /\ position.channel < MAX_CHANNELS))]_vars

\* the events of a pattern on one row, in stored order
StoredOnRow(pattern, row) ==
    SelectSeq(pattern.data, LAMBDA e : e.row = row)

\* C24: for every row below the row count, pattern[row] is the sequence of
\* the stored events of that row, all of them and no others, in strictly
\* increasing channel order.
C24_RowSlice ==
    \A row \in 0..(pat.rows - 1) :
        /\ Index(pat, row) = StoredOnRow(pat, row)
        /\ Range(Index(pat, row)) = {e \in Range(pat.data) : e.row = row}
        /\ \A i \in 1..(Len(Index(pat, row)) - 1) :
              Index(pat, row)[i].channel < Index(pat, row)[i + 1].channel

\* a row slice that starts after the event of a lower row and holds more
\* than one event
C24_Witness ==
    /\ Len(pat.data) = MaxEvents
    /\ \E row \in 1..(pat.rows - 2) :
          /\ Len(Index(pat, row)) > 1
          /\ pat.data[1].row < row

\* the invariants of a Pattern
PatternInvariant(pattern) ==
    /\ \A i \in 1..(Len(pattern.data) - 1) :
          PosLess(Key(pattern.data[i]), Key(pattern.data[i + 1]))
    /\ \A i \in 1..Len(pattern.data) : pattern.data[i].row < pattern.rows
    /\ pattern.rows >= 1
    /\ pattern.rows <= MAX_ROWS

\* C23: after any sequence of accepted operations every pattern of both song
\* copies has its events strictly increasing by (row, channel), every event
\* row below the row count, and a row count between 1 and MAX_ROWS.
C23_PatternInvariants ==
    \A song \in {value_1, value_2} :
        \A p \in song.patterns : PatternInvariant(p[2])

\* the entry of the order list at an index, EndOfSong behind the stored ones
OrderEntry(song, i) ==
    IF i < Len(song.pattern_order) THEN song.pattern_order[i + 1] ELSE EndOfSong

\* C25: next_pattern terminates: every iteration returns or moves the index
\* up by one, and the index of a call that started inside the list never
\* passes MAX_ORDERS.  The index it leaves is the first one at or after the
\* start whose entry is not SkipOrder; it returns Some(p) when that entry is
\* Number(p) and None when it is EndOfSong, which every index past the
\* MAX_ORDERS entries of the list is.
C25_NextPattern ==
    /\ [][NextPatternLoop => (np'.pc = "done" \/ np'.order = np.order + 1)]_vars
    /\ [](/\ np.order >= np.start
          /\ np.start <= MAX_ORDERS => np.order <= MAX_ORDERS
          /\ \A j \in np.start..(np.order - 1) :
                OrderEntry(value_1, j).kind = "SkipOrder")
    /\ []((np.pc = "done" /\ ret # "-") =>
            /\ OrderEntry(value_1, np.order).kind # "SkipOrder"
            /\ OrderEntry(value_1, np.order).kind = "Number" =>
                  /\ np.pattern = OrderEntry(value_1, np.order).n
                  /\ ret = "next_pattern:Some"
            /\ OrderEntry(value_1, np.order).kind = "EndOfSong" =>
                  /\ np.pattern = -1
                  /\ ret = "next_pattern:None"
            /\ np.order >= MAX_ORDERS => ret = "next_pattern:None")

\* next_pattern skipped every entry of a full list and ran past its end
C25_Witness ==
    /\ np.order = MAX_ORDERS
    /\ np.start = 0
    /\ ret = "next_pattern:None"
    /\ Len(value_1.pattern_order) = MAX_ORDERS

\* the playback state is about to leave the last row of its pattern: the
\* next PlaybackIter::next call steps the row
LastRowPlayed ==
    /\ playback_state # <<>>
    /\ ~playback_state[1].is_done
    /\ playback_state[1].frame = 0
    /\ playback_state[1].tick = 0
    /\ playback_state[1].position.row + 1
          >= PatternAt(value_1, playback_state[1].position.pattern).rows

\* C26: playback of a pattern (no order): when the last row has been played,
\* without loop the state becomes done, with loop the position returns to
\* row 0 of the same pattern; a looping pattern is never done, and the state
\* is not done before the last row has been played.
C26_PatternLoop ==
    /\ [][(LastRowPlayed /\ playback_state[1].position.order = -1 /\ IterNext) =>
              IF playback_state[1].position.loop_active
              THEN /\ ~playback_state'[1].is_done
                   /\ playback_state'[1].position.row = 0
                   /\ playback_state'[1].position.pattern
                        = playback_state[1].position.pattern
              ELSE playback_state'[1].is_done]_vars
    /\ [][(playback_state # <<>> /\ playback_state[1].position.order = -1
            /\ ~playback_state[1].is_done /\ playback_state'[1].is_done)
              => LastRowPlayed]_vars
    /\ []((/\ playback_state # <<>>
           /\ playback_state[1].position.order = -1
           /\ playback_state[1].position.loop_active)
              => ~playback_state[1].is_done)

\* a looping pattern came back to row 0 after its rows were played
C26_Witness ==
    /\ playback_state # <<>>
    /\ playback_state[1].position.order = -1
    /\ playback_state[1].position.loop_active
    /\ playback_state[1].position.row = 0
    /\ playback_state[1].row_len # -1
    /\ playback_state[1].since_row = 0

\* the voices of a playback state on one channel
VoicesOn(ps, c) == {v \in ps.voices : v.channel = c}

\* the voices of a channel after one more frame was taken from them
AfterFrame(ps, c) ==
    {[v EXCEPT !.player = PlayerStep(@)] :
        v \in {w \in VoicesOn(ps, c) : ~CheckPositionBreak(PlayerStep(w.player))}}

\* C27: when playback advances to a new row, every event of that row whose
\* sample slot is present puts a new voice on its channel, replacing the one
\* there; channels whose event names an empty slot and channels without an
\* event keep their voice; and all of this is done before a frame of the new
\* row is produced.
C27_RowBindsVoices ==
    [][(/\ playback_state # <<>>
        /\ playback_state[1].frame = 0
        /\ playback_state[1].tick = 0
        /\ IterNext
        /\ ~playback_state'[1].is_done) =>
          LET ps == playback_state[1]
              new == playback_state'[1]
              events == Range(Index(PatternAt(value_1, new.position.pattern),
                                    new.position.row))
              present == {e \in events :
                            /\ e.sample_instr < MAX_SAMPLES_INSTR
                            /\ SampleAt(value_1, e.sample_instr) # {}}
          IN  /\ ~new.panic
              /\ new.since_row = 0
              /\ \A c \in PlayChannels :
                    IF \E e \in present : e.channel = c
                    THEN \E e \in present :
                           /\ e.channel = c
                           /\ VoicesOn(new, c) =
                                {[channel |-> c,
                                  player |-> NewPlayer(CHOOSE smp \in
                                      SampleAt(value_1, e.sample_instr) : TRUE)]}
                    ELSE VoicesOn(new, c) = AfterFrame(ps, c)]_vars

\* C28: when the event loop has drained the ring and neither a live note nor
\* a playback state exists, the rest of the callback leaves every frame of
\* the host's output buffer as the host handed it over.
C28_IdleLeavesBuffer ==
    [][(/\ a_pc = "events"
        /\ to_worker = <<>>
        /\ live_note = <<>>
        /\ playback_state = <<>>
        /\ a_pc' = "end") =>
          /\ data = HostBuffer
          /\ data' = data]_vars

\* a callback without a voice and without playback is about to return, and
\* no frame of the host's buffer was written
C28_Witness ==
    /\ a_pc = "end"
    /\ ~panicked
    /\ live_note = <<>>
    /\ playback_state = <<>>
    /\ data = HostBuffer

\* the step size of a player when it is a whole number, 0 otherwise
WholeStep(player) ==
    IF player.step_size[1] % player.step_size[2] = 0
    THEN player.step_size[1] \div player.step_size[2]
    ELSE 0

\* C29: over a sample of L frames, a player whose step size is a whole
\* number s >= 1 has returned at least L div s frames when next first
\* returns None, that happens after at most L div s + 1 frames, and once
\* next returned None every later call returns None and no frame.
C29_FramesThenNone ==
    /\ [](WholeStep(sp) >= 1 =>
            /\ sp.frames <= sp.len \div WholeStep(sp) + 1
            /\ sp.nones > 0 => sp.frames >= sp.len \div WholeStep(sp))
    /\ [][(WholeStep(sp) >= 1 /\ sp.nones > 0 /\ SamplePlayerNext) =>
            /\ ret' = "next:None"
            /\ sp'.frames = sp.frames
            /\ sp'.nones = sp.nones + 1]_vars

\* a player with step size 2 over a sample of at least 4 frames has returned
\* None twice
C29_Witness ==
    /\ WholeStep(sp) = 2
    /\ sp.len >= 4
    /\ sp.frames >= 2
    /\ sp.nones = 2

\* C30: a voice one octave above the base note of its sample, at equal input
\* and output rate, has produced exactly ceil(L / 2) frames of a sample of L
\* frames when it is exhausted.
C30_OctaveUpFrames ==
    (/\ sp.note = sp.base_note + 12
     /\ sp.in_rate = sp.out_rate
     /\ sp.nones > 0) => sp.frames = (sp.len + 1) \div 2

\* C31: whenever next produces a frame, with either interpolation, every
\* frame index it reads is below len_with_pad of the sample, and the whole
\* part of the position is at least PAD_SIZE_EACH.  A stereo sample of L
\* frames and a mono sample of L frames have the same len_with_pad.
C31_ReadsInBounds ==
    [][(SamplePlayerNext /\ ret' = "next:Some") =>
          /\ sp.position[1] >= PAD_SIZE_EACH
          /\ \A idx \in ComputeLinear(sp) \cup ComputeNearest(sp) :
                idx < LenWithPadOf(sp.len)]_vars

\* a player of step size 1 has produced the frame at the first padding
\* frame behind the data
C31_Witness ==
    /\ ret = "next:Some"
    /\ sp.step_size[1] = sp.step_size[2]
    /\ sp.len >= 1
    /\ sp.position = <<PAD_SIZE_EACH + sp.len + 1, 0>>

\* the settings reach no playable pattern: a pattern index outside the
\* patterns of the song, or an order index from which the order list has no
\* Number entry before its first EndOfSong entry
NoPlayablePattern(settings, song) ==
    IF settings.kind = "Pattern"
    THEN settings.idx >= MAX_PATTERNS
    ELSE ~\E i \in settings.idx..(MAX_ORDERS - 1) :
            /\ GetOrder(song, i).kind = "Number"
            /\ \A j \in settings.idx..(i - 1) :
                  GetOrder(song, j).kind = "SkipOrder"

\* C32: when the callback pops a Playback command whose settings reach no
\* playable pattern, it does not panic and has no playback state afterwards,
\* and the mix that follows leaves playback inactive and puts no pattern
\* voice into the output.
C32_NoPatternNoPlayback ==
    /\ [][(/\ a_pc = "events"
           /\ to_worker # <<>>
           /\ Head(to_worker).type = "Playback"
           /\ NoPlayablePattern(Head(to_worker).settings, Value(read_guard))
           /\ CallbackPop) =>
             /\ playback_state' = <<>>
             /\ panicked' = panicked
             /\ a_pc' = "events"]_vars
    /\ [][(playback_state = <<>> /\ CallbackMix) =>
             /\ playback_state' = <<>>
             /\ \A i \in 1..Len(data') : \A f \in data'[i].mix : f.voice = -1]_vars

\* the callback is about to pop a Playback command whose order index reaches
\* no pattern
C32_Witness ==
    /\ a_pc = "events"
    /\ to_worker # <<>>
    /\ Head(to_worker).type = "Playback"
    /\ Head(to_worker).settings.kind = "Order"
    /\ NoPlayablePattern(Head(to_worker).settings, Value(read_guard))
    /\ ~panicked

\* C33: playback by order with loop_active: when the rows of the pattern are
\* played and next_pattern, called with the order index, returns None, the
\* search is repeated once from order index 0; playback continues at row 0
\* of the pattern that search finds, at the index it stopped at, and the
\* state becomes done exactly when that search also returns None.
C33_LoopRestarts ==
    /\ [][(/\ LastRowPlayed
           /\ playback_state[1].position.order # -1
           /\ playback_state[1].position.loop_active
           /\ NextPattern(value_1, playback_state[1].position.order).pattern = -1
           /\ IterNext) =>
             LET again == NextPattern(value_1, 0)
             IN  IF again.pattern = -1
                 THEN playback_state'[1].is_done
                 ELSE /\ ~playback_state'[1].is_done
                      /\ playback_state'[1].position =
                           [order |-> again.order, pattern |-> again.pattern,
                            row |-> 0, loop_active |-> TRUE]]_vars
    /\ [][(/\ playback_state # <<>>
           /\ playback_state[1].position.order # -1
           /\ playback_state[1].position.loop_active
           /\ ~playback_state[1].is_done
           /\ playback_state'[1].is_done) =>
             /\ LastRowPlayed
             /\ NextPattern(value_1, playback_state[1].position.order).pattern = -1
             /\ NextPattern(value_1, 0).pattern = -1]_vars

\* looping playback has played the rows of its pattern, the search from its
\* order index will find no pattern and the search from index 0 will find
\* another pattern than the one played
C33_Witness ==
    /\ LastRowPlayed
    /\ playback_state[1].position.loop_active
    /\ playback_state[1].position.order = 1
    /\ playback_state[1].position.pattern = 0
    /\ NextPattern(value_1, 1).pattern = -1
    /\ NextPattern(value_1, 0).pattern = 1

\* the voices that yield their last frame in the next PlaybackIter::next call
LastFrameVoices(ps) ==
    {v \in ps.voices : /\ ~CheckPositionBreak(v.player)
                       /\ CheckPositionBreak(PlayerStep(v.player))}

\* C34 as stated: the call in which a voice yields its last frame puts that
\* frame into the output and leaves the voice in its slot; the following
\* call clears the slot.
C34_ClearedByNextCall ==
    [][(playback_state # <<>> /\ IterNext /\ ~playback_state'[1].panic) =>
          \A v \in LastFrameVoices(playback_state[1]) :
              /\ [voice |-> v.channel, sample |-> v.player.sample,
                  position |-> v.player.position]
                    \in NextOut(playback_state[1])
              /\ [v EXCEPT !.player = PlayerStep(@)]
                    \in playback_state'[1].voices]_vars

\* C34, amended: the call in which a voice yields its last frame puts that
\* frame into the output and clears the slot of the voice itself, so no
\* exhausted voice is in a slot between two calls.
C34_ClearedBySameCall ==
    /\ [][(playback_state # <<>> /\ IterNext /\ ~playback_state'[1].panic) =>
            \A v \in LastFrameVoices(playback_state[1]) :
                /\ [voice |-> v.channel, sample |-> v.player.sample,
                    position |-> v.player.position]
                      \in NextOut(playback_state[1])
                /\ [v EXCEPT !.player = PlayerStep(@)]
                      \notin playback_state'[1].voices]_vars
    /\ [](playback_state # <<>> =>
            \A v \in playback_state[1].voices : ~CheckPositionBreak(v.player))

\* a call has just cleared the slot of the only voice in the middle of a row
C34_Witness ==
    /\ playback_state # <<>>
    /\ ~playback_state[1].is_done
    /\ ~playback_state[1].panic
    /\ playback_state[1].voices = {}
    /\ playback_state[1].since_row = SampleFrames + 1
    /\ RowEvents(PatternAt(value_1, playback_state[1].position.pattern),
                 playback_state[1].position.row) # {}

\* C35: while a WriteGuard is held its write target is the initial value
\* with every operation applied so far, in the order of the apply_op calls:
\* the operations the previous guard applied were replayed onto it, in their
\* order, before the guard was handed out.
C35_GuardShowsAllOps ==
    (w_pc = "guard") => Value(write_ptr) = AbsorbAll(DefaultSong, hist)

\* C36: an apply_op call made while no Reader exists leaves both copies
\* equal and the buffer of pending operations as it was, and a guard dropped
\* while no Reader exists does not swap.
C36_UniqueWritesBoth ==
    /\ [][(w_pc = "guard" /\ IsUnique /\ hist' # hist) =>
            /\ value_1' = value_2'
            /\ op_buffer' = op_buffer]_vars
    /\ [][(w_pc = "guard" /\ IsUnique /\ w_pc' = "idle") =>
            /\ write_ptr' = write_ptr
            /\ state' = state]_vars

C37_EmptyGuardNoSwap ==
    /\ [][(w_pc = "guard" /\ w_pc' = "idle" /\ Len(hist) \in finished) =>
            /\ state' = state
            /\ write_ptr' = write_ptr
            /\ value_1' = value_1
            /\ value_2' = value_2]_vars
    /\ [][(w_pc = "idle" /\ w_pc' = "guard") =>
            /\ state' = state
            /\ Value(NextReadPtr(state))' = Value(NextReadPtr(state))]_vars

\* a guard through which nothing was applied is held, after an earlier
\* guard applied an operation and swapped, while the Reader holds a ReadGuard
C37_Witness ==
    /\ w_pc = "guard"
    /\ Len(hist) \in finished
    /\ swaps > 0
    /\ read_guard # "None"

\* C39: in every state (a swap is one step) the writer's write target is the
\* copy the next_read_ptr bit does not select, and the copy a Reader::lock
\* acquires is not the write target, neither before nor after the lock.
C39_WriteTargetNotSelected ==
    /\ [](write_ptr = Switch(NextReadPtr(state)))
    /\ [][ReaderLock => (read_guard' # write_ptr /\ read_guard' # write_ptr')]_vars

\* after a swap the Reader locked anew while the writer, whose write target
\* is now the first copy, holds a WriteGuard
C39_Witness ==
    /\ read_guard = "Value2"
    /\ guard_seen.swaps = swaps
    /\ swaps > 0
    /\ w_pc = "guard"
    /\ write_ptr = "Value1"

\* C40: a get_callback call made while the manager records no active stream
\* builds a Reader and installs the new stream.
C40_GetCallbackSucceeds ==
    [][(GetCallback /\ ~stream_comms) =>
          (stream_comms' /\ ret' = "build_reader:Some" /\ readers' = 1)]_vars

====
